---------------------------- MODULE Spec2Model ----------------------------
(***************************************************************************)
(* Model of react-native-sized-webview.                                    *)
(*                                                                         *)
(* Host Height Reconciler: the useAutoHeight hook                          *)
(* (src/src/hooks/useAutoHeight.ts).  One hook instance, the host's frame  *)
(* queue (requestAnimationFrame / cancelAnimationFrame) and the caller     *)
(* that re-renders the hook with new options.                              *)
(*                                                                         *)
(* In-content Measurement Agent: the AUTO_HEIGHT_BRIDGE script             *)
(* (src/unnamed/part_002).  One session of one document: its state object, *)
(* the timers, frame requests, listeners and observers the browser holds   *)
(* for it, and the document's media elements.  Every browser callback runs *)
(* to completion, so each is one step.                                     *)
(*                                                                         *)
(* Numbers: a JS number is modelled in fixed point, as an integer count of *)
(* 1/Scale dp, so that Math.ceil, the 1 dp threshold and fractional        *)
(* minHeight values are computed, not assumed.                             *)
(***************************************************************************)
EXTENDS Integers, Sequences, FiniteSets, Bags, TLC

----------------------------------------------------------------------------
(* Bounds of the model *)

\* heights and payload values range over 0 .. MaxDp dp
MaxDp == 4

\* the host hands out at most MaxFrames frame ids (requestAnimationFrame calls)
MaxFrames == 2

----------------------------------------------------------------------------
(* Numbers *)

\* fixed-point resolution: value v stands for the JS number v / Scale
Scale == 10

HEIGHT_DIFF_THRESHOLD == 1

Max(a, b) == IF a >= b THEN a ELSE b

Abs(a) == IF a >= 0 THEN a ELSE 0 - a

\* Math.ceil on the fixed-point representation (\div rounds towards -infinity)
Ceil(v) == ((v + Scale - 1) \div Scale) * Scale

Finite(v) == [cls |-> "finite", v |-> v]

NaN == [cls |-> "NaN", v |-> 0]

PosInfinity == [cls |-> "Infinity", v |-> 0]

NegInfinity == [cls |-> "-Infinity", v |-> 0]

\* Number.isFinite
IsFinite(n) == n.cls = "finite"

----------------------------------------------------------------------------
(* Number(rawValue): the coercion of a payload that is not a number *)

DigitChars == <<"0", "1", "2", "3", "4", "5", "6", "7", "8", "9">>

IsDigit(c) == \E i \in 1..Len(DigitChars) : DigitChars[i] = c

DigitVal(c) == (CHOOSE i \in 1..Len(DigitChars) : DigitChars[i] = c) - 1

RECURSIVE TrimLeft(_)
TrimLeft(s) == IF s # <<>> /\ Head(s) = " " THEN TrimLeft(Tail(s)) ELSE s

RECURSIVE TrimRight(_)
TrimRight(s) ==
    IF s # <<>> /\ s[Len(s)] = " " THEN TrimRight(SubSeq(s, 1, Len(s) - 1)) ELSE s

RECURSIVE DigitsValue(_)
DigitsValue(s) ==
    IF s = <<>> THEN 0
    ELSE DigitsValue(SubSeq(s, 1, Len(s) - 1)) * 10 + DigitVal(s[Len(s)])

RECURSIVE Pow10(_)
Pow10(n) == IF n = 0 THEN 1 ELSE 10 * Pow10(n - 1)

AllDigits(s) == \A i \in 1..Len(s) : IsDigit(s[i])

\* position of the first "." of s, or Len(s) + 1
DotPos(s) ==
    IF \E i \in 1..Len(s) : s[i] = "."
    THEN CHOOSE i \in 1..Len(s) : s[i] = "." /\ \A j \in 1..(i - 1) : s[j] # "."
    ELSE Len(s) + 1

\* an unsigned decimal literal: digits, optionally "." and digits, at least
\* one digit in all.  The fraction is kept to the model's resolution.
DecimalLiteral(s) ==
    LET ip == SubSeq(s, 1, DotPos(s) - 1)
        fp == SubSeq(s, DotPos(s) + 1, Len(s))
    IN  IF AllDigits(ip) /\ AllDigits(fp) /\ Len(ip) + Len(fp) >= 1
        THEN Finite(DigitsValue(ip) * Scale + (DigitsValue(fp) * Scale) \div Pow10(Len(fp)))
        ELSE NaN

InfinityChars == <<"I", "n", "f", "i", "n", "i", "t", "y">>

\* the numeric value of a string: white space trimmed, "" is 0, an optional
\* sign, then Infinity or a decimal literal; anything else is NaN
StringToNumber(s) ==
    LET t == TrimRight(TrimLeft(s))
        signed == t # <<>> /\ Head(t) \in {"-", "+"}
        neg == t # <<>> /\ Head(t) = "-"
        body == IF signed THEN Tail(t) ELSE t
        mag == IF body = InfinityChars THEN PosInfinity ELSE DecimalLiteral(body)
    IN  IF t = <<>> THEN Finite(0)
        ELSE IF ~neg THEN mag
        ELSE IF mag.cls = "Infinity" THEN NegInfinity
        ELSE IF mag.cls = "finite" THEN Finite(0 - mag.v)
        ELSE NaN

\* Number(rawValue) for the payload types the bridge or a caller can hand in
Number(rawValue) ==
    CASE rawValue.type = "number" -> rawValue.num
      [] rawValue.type = "string" -> StringToNumber(rawValue.chars)
      [] rawValue.type = "boolean" -> IF rawValue.bool THEN Finite(Scale) ELSE Finite(0)
      [] rawValue.type = "null" -> Finite(0)
      [] rawValue.type = "undefined" -> NaN
      [] rawValue.type = "object" -> NaN

----------------------------------------------------------------------------
(* Inputs *)

NumberValues ==
    {0 - Scale, 0, 4}
        \cup {k * Scale : k \in 1..MaxDp}
        \cup {k * Scale + 4 : k \in 1..(MaxDp - 1)}

StringValues ==
    { <<>>, <<"x">>, <<".">>, <<"-", "2">>, <<"2", ".", "4">>, <<" ", "4", " ">>,
      <<"1", ".", "2", ".">>, <<"-">> \o InfinityChars }

Payloads ==
    {[type |-> "number", num |-> Finite(v)] : v \in NumberValues}
        \cup {[type |-> "number", num |-> n] : n \in {NaN, PosInfinity, NegInfinity}}
        \cup {[type |-> "string", chars |-> s] : s \in StringValues}
        \cup {[type |-> "boolean", bool |-> b] : b \in BOOLEAN}
        \cup {[type |-> "null"], [type |-> "undefined"], [type |-> "object"]}

\* the minHeight option: 0 (the container's default), a fractional value, whole values
MinHeights == {0, Scale + 5, (MaxDp - 1) * Scale, MaxDp * Scale}

\* the onHeightChange option: absent, or a caller function
NoCallback == "none"

Callbacks == {NoCallback, "f"}

\* useRef(null) / useRef(undefined): an empty cell; a set cell is <<value>>
null == <<>>

undefined == <<>>

----------------------------------------------------------------------------
(* State *)

VARIABLES
    minHeight,          \* options.minHeight of the latest render
    onHeightChange,     \* options.onHeightChange of the latest render
    height,             \* useState: the committed height the hook returns
    lastHeightRef,      \* lastHeightRef.current
    frameRef,           \* frameRef.current: null or <<frame id>>
    pendingHeightRef,   \* pendingHeightRef.current: undefined or <<height>>
    mounted,            \* the component is mounted (unmount cleanup not yet run)
    hasRAF,             \* typeof globalThis.requestAnimationFrame === 'function'
    hasCancel,          \* typeof globalThis.cancelAnimationFrame === 'function'
    rafQueue,           \* host: the frame callbacks requested and not yet run or cancelled
    rafId,              \* host: the last frame id handed out
    fired,              \* host: <<cb>> of the frame callback that ran last, or <<>>
    emitted,            \* the onHeightChange calls made by the last step
    op,                 \* the last step: its name and outcome (for a frame: what it committed)
    sched               \* what has been written to pendingHeightRef since the last flush

reconcilerVars ==
    << minHeight, onHeightChange, height, lastHeightRef, frameRef,
       pendingHeightRef, mounted, hasRAF, hasCancel, rafQueue, rafId, fired,
       emitted, op, sched >>

hostVars == << hasRAF, hasCancel >>

NoSched == [payloads |-> 0, cand |-> 0, src |-> "none", min |-> 0]

\* n: the accepted payloads a frame callback found coalesced (0, 1, 2 for more)
Op(name, outcome, n) == [name |-> name, outcome |-> outcome, n |-> n]

\* mutant: the initial height is minHeight itself, without the floor of 1
InitialHeight_NoFloor(m) == m

\* useState(() => Math.max(minHeight, 1))
InitialHeight(m) == Max(m, 1 * Scale)

Init ==
    /\ minHeight \in MinHeights
    /\ onHeightChange \in Callbacks
    /\ height = InitialHeight(minHeight)
    /\ lastHeightRef = height
    /\ frameRef = null
    /\ pendingHeightRef = undefined
    /\ mounted = TRUE
    /\ hasRAF \in BOOLEAN
    /\ hasCancel \in {FALSE, hasRAF}
    /\ rafQueue = {}
    /\ rafId = 0
    /\ fired = <<>>
    /\ emitted = <<>>
    /\ op = Op("init", "none", 0)
    /\ sched = NoSched

----------------------------------------------------------------------------
(* The hook's callbacks.  cb is the onHeightChange the callback's closure    *)
(* holds: the one of the render that created it.                             *)

NoCommit == UNCHANGED << height, lastHeightRef >> /\ emitted' = <<>>

\* commitHeight invoking the notification twice
commitHeight_NotifiesTwice(nextHeight, cb) ==
    /\ lastHeightRef' = nextHeight
    /\ height' = IF mounted THEN nextHeight ELSE height
    /\ emitted' = IF cb = NoCallback THEN <<>>
                  ELSE << [cb |-> cb, h |-> nextHeight], [cb |-> cb, h |-> nextHeight] >>

\* setHeight(nextHeight) re-renders a mounted component only
commitHeight(nextHeight, cb) ==
    /\ lastHeightRef' = nextHeight
    /\ height' = IF mounted THEN nextHeight ELSE height
    /\ emitted' = IF cb = NoCallback THEN <<>> ELSE << [cb |-> cb, h |-> nextHeight] >>

\* mutant: a flush that finds nothing pending commits the last height again
flushPendingHeight_RecommitsLast(pending, cb) ==
    /\ frameRef' = null
    /\ pendingHeightRef' = undefined
    /\ commitHeight(IF pending # undefined THEN pending[1] ELSE lastHeightRef, cb)

\* pending is pendingHeightRef.current as the callback reads it
flushPendingHeight(pending, cb) ==
    /\ frameRef' = null
    /\ pendingHeightRef' = undefined
    /\ IF pending # undefined THEN commitHeight(pending[1], cb) ELSE NoCommit

\* mutant: a value scheduled while a frame is outstanding is dropped
scheduleCommit_KeepsFirstPending(nextHeight, cb) ==
    IF frameRef # null
    THEN /\ UNCHANGED << pendingHeightRef, frameRef, rafQueue, rafId >>
         /\ NoCommit
    ELSE IF hasRAF
    THEN /\ rafId < MaxFrames
         /\ pendingHeightRef' = << nextHeight >>
         /\ rafId' = rafId + 1
         /\ frameRef' = << rafId + 1 >>
         /\ rafQueue' = rafQueue \cup {[id |-> rafId + 1, cb |-> cb]}
         /\ NoCommit
    ELSE /\ flushPendingHeight(<< nextHeight >>, cb)
         /\ UNCHANGED << rafQueue, rafId >>

\* mutant: a frame is requested whether or not one is outstanding
scheduleCommit_NoFrameCheck(nextHeight, cb) ==
    IF hasRAF
    THEN /\ rafId < MaxFrames
         /\ pendingHeightRef' = << nextHeight >>
         /\ rafId' = rafId + 1
         /\ frameRef' = << rafId + 1 >>
         /\ rafQueue' = rafQueue \cup {[id |-> rafId + 1, cb |-> cb]}
         /\ NoCommit
    ELSE /\ flushPendingHeight(<< nextHeight >>, cb)
         /\ UNCHANGED << rafQueue, rafId >>

\* mutant: without requestAnimationFrame the value stays pending
scheduleCommit_NoFallback(nextHeight, cb) ==
    IF frameRef # null \/ ~hasRAF
    THEN /\ pendingHeightRef' = << nextHeight >>
         /\ UNCHANGED << frameRef, rafQueue, rafId >>
         /\ NoCommit
    ELSE /\ rafId < MaxFrames
         /\ pendingHeightRef' = << nextHeight >>
         /\ rafId' = rafId + 1
         /\ frameRef' = << rafId + 1 >>
         /\ rafQueue' = rafQueue \cup {[id |-> rafId + 1, cb |-> cb]}
         /\ NoCommit

scheduleCommit(nextHeight, cb) ==
    IF frameRef # null
    THEN /\ pendingHeightRef' = << nextHeight >>
         /\ UNCHANGED << frameRef, rafQueue, rafId >>
         /\ NoCommit
    ELSE IF hasRAF
    THEN /\ rafId < MaxFrames
         /\ pendingHeightRef' = << nextHeight >>
         /\ rafId' = rafId + 1
         /\ frameRef' = << rafId + 1 >>
         /\ rafQueue' = rafQueue \cup {[id |-> rafId + 1, cb |-> cb]}
         /\ NoCommit
    ELSE /\ flushPendingHeight(<< nextHeight >>, cb)
         /\ UNCHANGED << rafQueue, rafId >>

\* scheduleCommit leaves its value pending (a frame is or gets requested)
Deferred == frameRef # null \/ hasRAF

NumericValue(rawValue) ==
    IF rawValue.type = "number" THEN rawValue.num ELSE Number(rawValue)

\* mutant: the sign of the value is not checked
IsMalformed_FiniteOnly(numericValue) == ~IsFinite(numericValue)

\* !Number.isFinite(numericValue) || numericValue <= 0
IsMalformed(numericValue) == ~IsFinite(numericValue) \/ numericValue.v <= 0

\* Math.max(minHeight, Math.ceil(numericValue))
NextHeight(numericValue) == Max(minHeight, Ceil(numericValue.v))

\* mutant: a difference of exactly the threshold is let through
WithinThreshold_Strict(nextHeight) ==
    Abs(nextHeight - lastHeightRef) < HEIGHT_DIFF_THRESHOLD * Scale

\* mutant: every well-formed payload is scheduled
WithinThreshold_Never(nextHeight) == FALSE

\* Math.abs(nextHeight - lastHeightRef.current) <= HEIGHT_DIFF_THRESHOLD
WithinThreshold(nextHeight) ==
    Abs(nextHeight - lastHeightRef) <= HEIGHT_DIFF_THRESHOLD * Scale

Ignore ==
    /\ UNCHANGED << frameRef, pendingHeightRef, rafQueue, rafId, sched >>
    /\ NoCommit

setHeightFromPayload(rawValue) ==
    LET numericValue == NumericValue(rawValue)
        nextHeight == NextHeight(numericValue)
    IN  /\ UNCHANGED << minHeight, onHeightChange, mounted, hostVars, fired >>
        /\ IF IsMalformed(numericValue)
           THEN /\ Ignore
                /\ op' = Op("setHeightFromPayload", "malformed", 0)
           ELSE IF WithinThreshold(nextHeight)
           THEN /\ Ignore
                /\ op' = Op("setHeightFromPayload", "threshold", 0)
           ELSE /\ scheduleCommit(nextHeight, onHeightChange)
                /\ op' = Op("setHeightFromPayload", "accepted", 0)
                /\ sched' = IF Deferred
                            THEN [sched EXCEPT !.payloads = IF @ = 0 THEN 1 ELSE 2,
                                               !.cand = nextHeight,
                                               !.src = "payload"]
                            ELSE NoSched

\* mutant: the new minimum is scheduled as it is, without Math.ceil
minHeightEffect_NoCeil(m, cb) ==
    IF m > lastHeightRef
    THEN /\ scheduleCommit(m, cb)
         /\ op' = Op("rerender", "scheduled", 0)
         /\ sched' = IF Deferred
                     THEN [sched EXCEPT !.src = "minHeight", !.min = m]
                     ELSE NoSched
    ELSE /\ Ignore
         /\ op' = Op("rerender", "none", 0)

\* useEffect(..., [minHeight, scheduleCommit]) of a render with minHeight m
minHeightEffect(m, cb) ==
    IF m > lastHeightRef
    THEN /\ scheduleCommit(Ceil(m), cb)
         /\ op' = Op("rerender", "scheduled", 0)
         /\ sched' = IF Deferred
                     THEN [sched EXCEPT !.src = "minHeight", !.min = m]
                     ELSE NoSched
    ELSE /\ Ignore
         /\ op' = Op("rerender", "none", 0)

\* the caller renders the hook again with options that differ: minHeight
\* changed, or onHeightChange did (and with it commitHeight, flushPendingHeight
\* and scheduleCommit), so the effect runs again
Rerender(m, cb) ==
    /\ mounted
    /\ << m, cb >> # << minHeight, onHeightChange >>
    /\ minHeight' = m
    /\ onHeightChange' = cb
    /\ minHeightEffect(m, cb)
    /\ UNCHANGED << mounted, hostVars, fired >>

\* the host runs a requested frame callback: () => flushPendingHeight()
RunFrame ==
    \E f \in rafQueue :
        /\ rafQueue' = rafQueue \ {f}
        /\ flushPendingHeight(pendingHeightRef, f.cb)
        /\ fired' = << f.cb >>
        /\ op' = Op("frame", IF pendingHeightRef # undefined THEN sched.src ELSE "none",
                    sched.payloads)
        /\ sched' = NoSched
        /\ UNCHANGED << minHeight, onHeightChange, mounted, hostVars, rafId >>

\* a frame callback that already ran is invoked once more while nothing is pending
StrayFlush ==
    /\ fired # <<>>
    /\ pendingHeightRef = undefined
    /\ flushPendingHeight(pendingHeightRef, fired[1])
    /\ op' = Op("stray", "none", 0)
    /\ UNCHANGED << minHeight, onHeightChange, mounted, hostVars, rafQueue, rafId,
                    fired, sched >>

\* the cleanup of useEffect(..., []): cancelAnimationFrame(frameRef.current)
Unmount ==
    /\ mounted
    /\ mounted' = FALSE
    /\ rafQueue' = IF hasCancel /\ frameRef # null
                   THEN {f \in rafQueue : f.id # frameRef[1]}
                   ELSE rafQueue
    /\ op' = Op("unmount", "none", 0)
    /\ emitted' = <<>>
    /\ UNCHANGED << minHeight, onHeightChange, height, lastHeightRef, frameRef,
                    pendingHeightRef, hostVars, rafId, fired, sched >>

TypeOK ==
    /\ minHeight \in MinHeights
    /\ onHeightChange \in Callbacks
    /\ height \in 0..(MaxDp * Scale)
    /\ lastHeightRef \in 0..(MaxDp * Scale)
    /\ frameRef \in {null} \cup {<< i >> : i \in 1..MaxFrames}
    /\ pendingHeightRef \in {undefined} \cup {<< h >> : h \in 0..(MaxDp * Scale)}
    /\ mounted \in BOOLEAN
    /\ rafId \in 0..MaxFrames

----------------------------------------------------------------------------
(* The Measurement Agent: constants and the document it measures *)

ACTIVE_DEBOUNCE_MS == 48
IDLE_DEBOUNCE_MS == 160
INITIAL_FALLBACK_MS == 600
MAX_FALLBACK_MS == 4000

\* postHeight: "sanitized > 100000", in CSS px
ANOMALY_LIMIT == 100000

\* postHeight: "state.anomalyCount < 3"
ANOMALY_CONFIRMATIONS == 3

\* queueStabilization: the delays of the forced re-measurements after bootstrap
StabilizationDelays == << 32, 120, 240, 500, 1000, 2000, 3200 >>

\* state.anomalyCount is only compared with ANOMALY_CONFIRMATIONS: the model
\* stops counting at MaxAnomalyCount (at least ANOMALY_CONFIRMATIONS)
MaxAnomalyCount == 3

\* the model arms the first MaxStabilization timers of queueStabilization
MaxStabilization == 1

\* the document holds at most MaxMedia media elements
MaxMedia == 1

Min(a, b) == IF a <= b THEN a ELSE b

\* what the geometry reads of one measurement return: the values array of
\* measureHeight (element metrics first, window.innerHeight last), in 1/Scale px
Layouts ==
    { << 0, 0 >>,
      << 30 * Scale + 5, 29 * Scale >>,
      << 20 * Scale, ANOMALY_LIMIT * Scale >>,
      << ANOMALY_LIMIT * Scale + 4, 0 >>,
      << 30 * Scale, 2 * ANOMALY_LIMIT * Scale >> }

\* window.ReactNativeWebView during one callback: a working channel, none,
\* or one whose postMessage throws
Channels == {"ok", "absent", "throws"}

\* the observer constructors a window may lack
Capabilities == {"MutationObserver", "ResizeObserver"}

\* the media elements of the document
Elements == {"img", "video", "iframe"}

\* how tryTrackMedia finds an element.
\*   img   : "loading"; "complete" (complete, naturalHeight > 0);
\*           "broken" (complete, naturalHeight = 0: its error event is past)
\*   video : "loading"; "complete" (readyState >= 2)
\*   iframe: "loading"; "blank" (contentDocument is the complete initial
\*           document, the load event of its content is still to come);
\*           "complete" (content loaded, no load event to come)
Found ==
    [img    |-> {"loading", "complete", "broken"},
     video  |-> {"loading", "complete"},
     iframe |-> {"loading", "blank", "complete"}]

\* the events on which a tracked element settles
SettleEvents ==
    [img    |-> {"load", "error"},
     video  |-> {"loadeddata", "loadedmetadata", "ended"},
     iframe |-> {"load", "error"}]

ListenerKey(target, type) == target \o ":" \o type

\* ensureDomReady: document.addEventListener('readystatechange', handler);
\* window.addEventListener('load', handler)
ReadySources ==
    { ListenerKey("document", "readystatechange"), ListenerKey("window", "load") }

\* the events a document dispatches after it became interactive, in order
ReadyEvents ==
    << ListenerKey("document", "readystatechange"), ListenerKey("window", "load") >>

\* mutant: the handler of ensureDomReady stays registered after it ran
handler_StaysRegistered(registered) == registered

\* the handler of ensureDomReady in a ready document removes itself from
\* both event sources before it calls bootstrap: the registrations it leaves
handler(registered) == registered \ ReadySources

\* the listeners bootstrap registers through addEvent
BootstrapListeners ==
    { ListenerKey("visualViewport", t) : t \in {"resize", "scroll"} }
    \cup { ListenerKey("fonts", t) : t \in {"loadingdone", "loadingerror"} }
    \cup { ListenerKey("window", t) :
              t \in {"load", "pageshow", "orientationchange", "resize", "message", "unload"} }
    \cup { ListenerKey("document", t) : t \in {"DOMContentLoaded", "readystatechange"} }

\* readMaxValue
RECURSIVE readMaxValue(_)
readMaxValue(values) ==
    IF values = <<>> THEN 0
    ELSE Max(Head(values), readMaxValue(Tail(values)))

\* measureHeight: Math.max(0, Math.ceil(readMaxValue(values)))
measureHeight(values) == Max(0, Ceil(readMaxValue(values)))

(* State of the Agent *)

VARIABLES
    session,        \* window[GLOBAL_KEY]: "none" before the first injection, "live"
                    \* while it holds the state object, "destroyed" after cleanupAll
    unloaded,       \* the document has been unloaded
    domReady,       \* document.readyState is interactive or complete
    bootstrapped,   \* bootstrap() has run
    bootstraps,     \* how many times bootstrap() has run
    readyEvents,    \* document: the events that follow the interactive state
    readyListeners, \* browser: where the handler of ensureDomReady is registered
    state,          \* the state object (frame, timer, microtask, pendingLoads,
                    \* lastHeight, anomalyCount, fallbackTimer, fallbackDelay)
    cleanup,        \* state.cleanup: the registered cleanup functions, a bag
    trackedMedia,   \* the WeakSet trackedMedia
    observers,      \* browser: the connected observers, a bag
    listeners,      \* browser: the registered event listeners, a bag
    timeouts,       \* browser: the armed timers, a bag of [kind, delay]
    frames,         \* browser: the requested frame callbacks, a bag
    fontsReady,     \* browser: a fonts.ready continuation is pending
    media,          \* document: per element "absent", "loading" or "settled"
    layout,         \* document: what the geometry reads return (a member of Layouts)
    trailing,       \* document: pruneTrailingNodes would find nodes to remove
    channel,        \* window.ReactNativeWebView (a member of Channels)
    capabilities,   \* the observer constructors the window has
    posted,         \* the heights postMessage sent out during the last step
    lastSent,       \* the last height that went out on the channel (0: none)
    streak,         \* consecutive measurements above ANOMALY_LIMIT so far
    aop             \* the last step: its name and the measurements it took

readinessVars == << bootstraps, readyEvents, readyListeners >>

agentVars ==
    << session, unloaded, domReady, bootstrapped, readinessVars, state, cleanup,
       trackedMedia,
       observers, listeners, timeouts, frames, fontsReady, media, layout,
       trailing, channel, capabilities, posted, lastSent, streak, aop >>

\* var state = { frame: null, timer: null, microtask: false, ... };
\* lastCssHeight (written, never read) and wrapper (a DOM node) are left out
InitialState ==
    [frame |-> null, timer |-> null, microtask |-> FALSE, pendingLoads |-> 0,
     lastHeight |-> 0, anomalyCount |-> 0, fallbackTimer |-> null,
     fallbackDelay |-> INITIAL_FALLBACK_MS]

\* timers and frame requests as the browser holds them
Timer(kind, delay) == [kind |-> kind, delay |-> delay]
MeasureFrame == << "runMeasure", "" >>
LooseFrame == << "scheduleMeasure", "" >>
IframeFrame(el) == << "onIframe", el >>

\* measures: the calls of measureHeight the step made (0, 1, 2 for more)
\* (the world record of a callback counts them all in its field passes)
AOp(name, measures) == [name |-> name, measures |-> measures]

----------------------------------------------------------------------------
(* The Agent's functions.  A callback is a composition of them over a     *)
(* record w of the session, the browser and the document.                 *)

World ==
    [session |-> session, state |-> state, cleanup |-> cleanup,
     trackedMedia |-> trackedMedia, observers |-> observers,
     listeners |-> listeners, timeouts |-> timeouts, frames |-> frames,
     fontsReady |-> fontsReady, media |-> media, layout |-> layout,
     trailing |-> trailing, channel |-> channel, posted |-> <<>>,
     lastSent |-> lastSent, streak |-> streak, measures |-> 0,
     passes |-> 0]

\* window.setTimeout / clearTimeout; a handle is null or <<timer>>
setTimeout(w, t) == [w EXCEPT !.timeouts = @ (+) SetToBag({t})]

clearTimeout(w, handle) ==
    IF handle = null THEN w
    ELSE [w EXCEPT !.timeouts = @ (-) SetToBag({handle[1]})]

\* requestFrame / cancelFrame
requestFrame(w, f) == [w EXCEPT !.frames = @ (+) SetToBag({f})]

cancelFrame(w, handle) ==
    IF handle = null THEN w
    ELSE [w EXCEPT !.frames = @ (-) SetToBag({handle[1]})]

\* a cleanup function: what it undoes
CleanupFn(kind, key, delay) == [kind |-> kind, key |-> key, delay |-> delay]

addCleanup(w, fn) == [w EXCEPT !.cleanup = @ (+) SetToBag({fn})]

\* addEvent: registers the listener and its removal
addEvent(w, key) ==
    addCleanup([w EXCEPT !.listeners = @ (+) SetToBag({key})],
               CleanupFn("listener", key, 0))

\* the remove function addEvent returns
removeEvent(w, key) == [w EXCEPT !.listeners = @ (-) SetToBag({key})]

\* what the cleanup functions fns of one kind undo, with multiplicity
Undone(fns, kind) ==
    LET of == { c \in BagToSet(fns) : c.kind = kind }
    IN  [x \in { IF kind = "timeout" THEN Timer(c.key, c.delay) ELSE c.key : c \in of } |->
            CopiesIn(CHOOSE c \in of :
                        x = IF kind = "timeout" THEN Timer(c.key, c.delay) ELSE c.key,
                     fns)]

\* scheduleTimeout: arms the timer and registers its clearTimeout
scheduleTimeout(w, t) ==
    addCleanup(setTimeout(w, t), CleanupFn("timeout", t.kind, t.delay))

scheduleFallback(w) ==
    IF w.state.fallbackTimer # null THEN w
    ELSE LET t == Timer("fallback", w.state.fallbackDelay)
         IN  [setTimeout(w, t) EXCEPT !.state.fallbackTimer = << t >>]

\* mutant: a measurement re-arms the fallback timer with the delay reached
resetFallback_KeepsDelay(w) ==
    scheduleFallback(IF w.state.fallbackTimer # null
                     THEN [clearTimeout(w, w.state.fallbackTimer)
                               EXCEPT !.state.fallbackTimer = null]
                     ELSE w)

\* mutant: a measurement clears the fallback timer and does not arm it again
resetFallback_NoRearm(w) ==
    LET w1 == [w EXCEPT !.state.fallbackDelay = INITIAL_FALLBACK_MS]
    IN  IF w1.state.fallbackTimer # null
        THEN [clearTimeout(w1, w1.state.fallbackTimer) EXCEPT !.state.fallbackTimer = null]
        ELSE w1

resetFallback(w) ==
    LET w1 == [w EXCEPT !.state.fallbackDelay = INITIAL_FALLBACK_MS]
        w2 == IF w1.state.fallbackTimer # null
              THEN [clearTimeout(w1, w1.state.fallbackTimer)
                        EXCEPT !.state.fallbackTimer = null]
              ELSE w1
    IN  scheduleFallback(w2)

\* the try block of postHeight: the height goes out only over a channel
\* whose postMessage is a function and does not throw
Send(w, sanitized) ==
    IF w.channel = "ok"
    THEN [w EXCEPT !.posted = Append(@, sanitized), !.lastSent = sanitized]
    ELSE w

RECURSIVE scheduleMeasure(_, _)

\* mutant: a suspect sample is dropped, no further measurement is forced
postHeight_DiscardsAnomaly(w, cssHeight) ==
    IF cssHeight <= 0 THEN w
    ELSE
      LET sanitized == Ceil(cssHeight)
          anomalous == sanitized > ANOMALY_LIMIT * Scale
          w1        == [w EXCEPT !.state.anomalyCount = IF anomalous THEN 1 ELSE 0]
      IN  IF anomalous THEN w1
          ELSE IF w1.state.lastHeight = sanitized THEN w1
          ELSE Send([w1 EXCEPT !.state.lastHeight = sanitized], sanitized)

postHeight(w, cssHeight) ==
    IF cssHeight <= 0 THEN w
    ELSE
      LET sanitized == Ceil(cssHeight)
          anomalous == sanitized > ANOMALY_LIMIT * Scale
          count     == IF anomalous
                       THEN Min(w.state.anomalyCount + 1, MaxAnomalyCount)
                       ELSE 0
          w1        == [w EXCEPT !.state.anomalyCount = count]
      IN  IF sanitized <= 0 THEN w
          ELSE IF anomalous /\ count < ANOMALY_CONFIRMATIONS
          THEN scheduleMeasure(w1, TRUE)
          ELSE IF w1.state.lastHeight = sanitized THEN w1
          ELSE Send([w1 EXCEPT !.state.lastHeight = sanitized], sanitized)

\* mutant: a failed post ends the pass, resetFallback is not reached
runMeasure_ChannelFailureEscapes(w) ==
    LET w1 == [w EXCEPT !.state.frame = null]
        w2 == IF w1.trailing
              THEN scheduleMeasure([w1 EXCEPT !.trailing = FALSE], TRUE)
              ELSE w1
        measured == measureHeight(w2.layout)
        w3 == [w2 EXCEPT !.measures = Min(@ + 1, 2), !.passes = @ + 1,
                         !.streak = IF measured > ANOMALY_LIMIT * Scale
                                    THEN Min(@ + 1, MaxAnomalyCount)
                                    ELSE 0]
        w4 == IF measured # 0 THEN postHeight(w3, measured) ELSE w3
    IN  IF w.channel # "ok" /\ w4.state.lastHeight # w3.state.lastHeight
        THEN w4
        ELSE resetFallback(w4)

\* runMeasure; measureHeight first prunes the trailing nodes, which forces
\* a measurement of its own when it removed any
runMeasure(w) ==
    LET w1 == [w EXCEPT !.state.frame = null]
        w2 == IF w1.trailing
              THEN scheduleMeasure([w1 EXCEPT !.trailing = FALSE], TRUE)
              ELSE w1
        measured == measureHeight(w2.layout)
        w3 == [w2 EXCEPT !.measures = Min(@ + 1, 2), !.passes = @ + 1,
                         !.streak = IF measured > ANOMALY_LIMIT * Scale
                                    THEN Min(@ + 1, MaxAnomalyCount)
                                    ELSE 0]
        w4 == IF measured # 0 THEN postHeight(w3, measured) ELSE w3
    IN  resetFallback(w4)

\* mutant: a forced measurement cancels the frame but leaves the debounce
\* timer armed
scheduleMeasure_KeepsTimer(w, force) ==
    IF force
    THEN runMeasure(IF w.state.frame # null
                    THEN [cancelFrame(w, w.state.frame) EXCEPT !.state.frame = null]
                    ELSE w)
    ELSE IF w.state.frame # null THEN w
    ELSE [requestFrame(w, MeasureFrame) EXCEPT !.state.frame = << MeasureFrame >>]

scheduleMeasure(w, force) ==
    IF force
    THEN LET w1 == IF w.state.frame # null
                   THEN [cancelFrame(w, w.state.frame) EXCEPT !.state.frame = null]
                   ELSE w
             w2 == IF w1.state.timer # null
                   THEN [clearTimeout(w1, w1.state.timer) EXCEPT !.state.timer = null]
                   ELSE w1
         IN  runMeasure(w2)
    ELSE IF w.state.frame # null THEN w
    ELSE [requestFrame(w, MeasureFrame) EXCEPT !.state.frame = << MeasureFrame >>]

\* mutant: the cooldown is the idle one whatever is in flight
getDebounceDelay_AlwaysIdle(w) == IDLE_DEBOUNCE_MS

getDebounceDelay(w) ==
    IF w.state.pendingLoads > 0 THEN ACTIVE_DEBOUNCE_MS ELSE IDLE_DEBOUNCE_MS

debouncedMeasure(w) ==
    LET w1 == scheduleMeasure(w, FALSE)
        w2 == clearTimeout(w1, w1.state.timer)
        t  == Timer("debounce", getDebounceDelay(w2))
    IN  [setTimeout(w2, t) EXCEPT !.state.timer = << t >>]

requestDebouncedMeasure(w) ==
    LET w1 == scheduleFallback(w)
    IN  IF w1.state.microtask THEN w1
        ELSE [w1 EXCEPT !.state.microtask = TRUE]

markLoading(w) ==
    scheduleFallback([w EXCEPT !.state.pendingLoads = @ + 1])

clearLoading(w) ==
    IF w.state.pendingLoads > 0
    THEN [w EXCEPT !.state.pendingLoads = @ - 1]
    ELSE w

\* the handler of a tracked element's settle events (onSettled, onIframe,
\* onVideo): removes its listeners, then clearLoading, a forced measurement
\* and one more on the next frame
onSettled(w, el) ==
    LET keys == { ListenerKey(el, t) : t \in SettleEvents[el] }
        w1 == [w EXCEPT !.listeners = @ (-) SetToBag(keys)]
        w2 == scheduleMeasure(clearLoading(w1), TRUE)
    IN  requestFrame(w2, LooseFrame)

\* the listeners of a tracked element
addSettleEvents(w, el) ==
    LET keys == { ListenerKey(el, t) : t \in SettleEvents[el] }
    IN  [w EXCEPT !.listeners = @ (+) SetToBag(keys),
                  !.cleanup = @ (+) SetToBag({ CleanupFn("listener", k, 0) : k \in keys })]

tryTrackMedia(w, el, found) ==
    IF el \in w.trackedMedia THEN w
    ELSE
      LET w1 == [w EXCEPT !.trackedMedia = @ \cup {el}]
      IN  IF el = "iframe"
          THEN LET w2 == addSettleEvents(markLoading(w1), el)
               IN  IF found \in {"blank", "complete"}
                   THEN requestFrame(scheduleMeasure(w2, TRUE), IframeFrame(el))
                   ELSE w2
          ELSE IF found = "complete"
          THEN requestFrame(scheduleMeasure(w1, TRUE), LooseFrame)
          ELSE addSettleEvents(markLoading(w1), el)

\* what a scan finds: nothing, or one element and how it is found
NoScan == << >>
Scans == {NoScan} \cup UNION { { << el, f >> : f \in Found[el] } : el \in Elements }

\* the scan finds an element of the document, or one that enters it now
ScanOK(scan) ==
    scan # NoScan =>
        \/ media[scan[1]] # "absent"
        \/ Cardinality({ el \in Elements : media[el] # "absent" }) < MaxMedia

\* scanForMedia over the nodes a scan finds; an element enters the document
\* loading or settled
scanForMedia(w, scan) ==
    IF scan = NoScan THEN w
    ELSE LET el == scan[1]
             w1 == IF w.media[el] = "absent"
                   THEN [w EXCEPT !.media[el] =
                            IF scan[2] \in {"loading", "blank"} THEN "loading" ELSE "settled"]
                   ELSE w
         IN  tryTrackMedia(w1, el, scan[2])

cleanupAll(w) ==
    LET w1 == IF w.state.frame # null
              THEN [cancelFrame(w, w.state.frame) EXCEPT !.state.frame = null]
              ELSE w
        w2 == IF w1.state.timer # null
              THEN [clearTimeout(w1, w1.state.timer) EXCEPT !.state.timer = null]
              ELSE w1
        w3 == IF w2.state.fallbackTimer # null
              THEN [clearTimeout(w2, w2.state.fallbackTimer)
                        EXCEPT !.state.fallbackTimer = null]
              ELSE w2
        fns == w3.cleanup
    IN  [w3 EXCEPT
            !.listeners = @ (-) Undone(fns, "listener"),
            !.observers = @ (-) Undone(fns, "observer"),
            !.timeouts = @ (-) Undone(fns, "timeout"),
            !.cleanup = EmptyBag,
            !.session = "destroyed"]

\* new MutationObserver / ResizeObserver, observe, addCleanup(disconnect)
observe(w, name) ==
    addCleanup([w EXCEPT !.observers = @ (+) SetToBag({name})],
               CleanupFn("observer", name, 0))

\* mutant: the observer is constructed whether the window has it or not
observeMutations_Unchecked(w) == observe(w, "mutation")

observeMutations(w) ==
    IF "MutationObserver" \in capabilities THEN observe(w, "mutation") ELSE w

observeResize(w) ==
    IF "ResizeObserver" \in capabilities THEN observe(w, "resize") ELSE w

\* queueStabilization
RECURSIVE queueStabilization(_, _)
queueStabilization(w, delays) ==
    IF delays = <<>> THEN w
    ELSE queueStabilization(scheduleTimeout(w, Timer("stabilization", Head(delays))),
                            Tail(delays))

RECURSIVE addEvents(_, _)
addEvents(w, keys) ==
    IF keys = {} THEN w
    ELSE LET k == CHOOSE x \in keys : TRUE
         IN  addEvents(addEvent(w, k), keys \ {k})

bootstrap(w, scan) ==
    LET \* ensureWrapper, pruneTrailingNodes
        w1 == IF w.trailing
              THEN scheduleMeasure([w EXCEPT !.trailing = FALSE], TRUE)
              ELSE w
        w2 == scanForMedia(w1, scan)
        \* observeMutations, observeResize
        w3 == observeResize(observeMutations(w2))
        \* observeViewport, observeFonts, observeGlobalEvents, watchMessages,
        \* addEvent(window, 'unload', cleanupAll)
        w4 == [addEvents(w3, BootstrapListeners) EXCEPT !.fontsReady = TRUE]
        w5 == queueStabilization(w4, SubSeq(StabilizationDelays, 1, MaxStabilization))
    IN  scheduleFallback(scheduleMeasure(w5, TRUE))

\* mutant: the second injection runs the installation again
refresh_Reinstalls(w) == bootstrap(w, NoScan)

\* state.refresh: ensureWrapper, then a forced measurement
refresh(w) == scheduleMeasure(w, TRUE)

----------------------------------------------------------------------------
(* The Agent's steps: one per browser task *)

\* the window before the script is injected, whatever its document shows
AgentStart ==
    /\ session = "none"
    /\ unloaded = FALSE
    /\ domReady \in BOOLEAN
    /\ bootstrapped = FALSE
    /\ bootstraps = 0
    /\ readyEvents = ReadyEvents
    /\ readyListeners = {}
    /\ state = InitialState
    /\ cleanup = EmptyBag
    /\ trackedMedia = {}
    /\ observers = EmptyBag
    /\ listeners = EmptyBag
    /\ timeouts = EmptyBag
    /\ frames = EmptyBag
    /\ fontsReady = FALSE
    /\ media = [el \in Elements |-> "absent"]
    /\ trailing \in BOOLEAN
    /\ channel \in Channels
    /\ capabilities \in SUBSET Capabilities
    /\ posted = <<>>
    /\ lastSent = 0
    /\ streak = 0
    /\ aop = AOp("init", 0)

AgentInit == AgentStart /\ layout \in Layouts

\* the Agent before any injection
AgentIdle ==
    /\ AgentInit
    /\ domReady = FALSE /\ ~trailing /\ channel = "ok" /\ layout = << 0, 0 >>
    /\ capabilities = Capabilities

\* the step leaves the session, the browser and the document as w
Commit(w, name) ==
    /\ session' = w.session
    /\ state' = w.state
    /\ cleanup' = w.cleanup
    /\ trackedMedia' = w.trackedMedia
    /\ observers' = w.observers
    /\ listeners' = w.listeners
    /\ timeouts' = w.timeouts
    /\ frames' = w.frames
    /\ fontsReady' = w.fontsReady
    /\ media' = w.media
    /\ layout' = w.layout
    /\ trailing' = w.trailing
    /\ channel' = w.channel
    /\ capabilities' = capabilities
    /\ posted' = w.posted
    /\ lastSent' = w.lastSent
    /\ streak' = w.streak
    /\ aop' = AOp(name, w.measures)

\* a task starts only in a live document whose microtask queue is empty
Task == ~unloaded /\ ~state.microtask

\* the content changes: other geometry, and perhaps trailing nodes
ContentChange(l, t) ==
    /\ Task
    /\ << l, t >> # << layout, trailing >>
    /\ Commit([World EXCEPT !.layout = l, !.trailing = t], "content")
    /\ UNCHANGED << unloaded, domReady, bootstrapped, readinessVars >>

\* the host installs or removes window.ReactNativeWebView
ChannelChange(c) ==
    /\ Task
    /\ c # channel
    /\ Commit([World EXCEPT !.channel = c], "channel")
    /\ UNCHANGED << unloaded, domReady, bootstrapped, readinessVars >>

\* the script runs for the first time: window[GLOBAL_KEY] = state, then
\* ensureDomReady(bootstrap)
Inject(scan) ==
    /\ Task /\ session = "none"
    /\ IF domReady
       THEN /\ ScanOK(scan)
            /\ Commit(bootstrap([World EXCEPT !.session = "live"], scan), "inject")
            /\ bootstrapped' = TRUE
            /\ bootstraps' = bootstraps + 1
            /\ UNCHANGED readyListeners
       ELSE /\ scan = NoScan
            /\ Commit([World EXCEPT !.session = "live"], "inject")
            /\ bootstrapped' = FALSE
            /\ readyListeners' = readyListeners \cup ReadySources
            /\ UNCHANGED bootstraps
    /\ UNCHANGED << unloaded, domReady, readyEvents >>

\* the script runs again while window[GLOBAL_KEY] holds the session
Reinject ==
    /\ Task /\ session = "live"
    /\ Commit(refresh(World), "reinject")
    /\ UNCHANGED << unloaded, domReady, bootstrapped, readinessVars >>

\* the document becomes interactive: the handler of ensureDomReady runs
\* bootstrap, if the script has run
DomReady(scan) ==
    /\ Task /\ ~domReady
    /\ domReady' = TRUE
    /\ IF ListenerKey("document", "readystatechange") \in readyListeners
       THEN /\ ScanOK(scan)
            /\ readyListeners' = handler(readyListeners)
            /\ Commit(bootstrap(World, scan), "domReady")
            /\ bootstrapped' = TRUE
            /\ bootstraps' = bootstraps + 1
       ELSE /\ scan = NoScan
            /\ Commit(World, "domReady")
            /\ bootstrapped' = FALSE
            /\ UNCHANGED << bootstraps, readyListeners >>
    /\ UNCHANGED << unloaded, readyEvents >>

\* the events that follow in the ready document, readystatechange (complete)
\* and the window's load: the handler of ensureDomReady runs where it is
\* still registered
onReadyEvent ==
    /\ Task /\ domReady /\ readyEvents # << >>
    /\ readyEvents' = Tail(readyEvents)
    /\ IF Head(readyEvents) \in readyListeners
       THEN /\ readyListeners' = handler(readyListeners)
            /\ Commit(bootstrap(World, NoScan), "readyEvent")
            /\ bootstrapped' = TRUE
            /\ bootstraps' = bootstraps + 1
       ELSE /\ Commit(World, "readyEvent")
            /\ UNCHANGED << bootstrapped, bootstraps, readyListeners >>
    /\ UNCHANGED << unloaded, domReady >>

\* the frame callback runMeasure
onFrame ==
    /\ Task /\ BagIn(MeasureFrame, frames)
    /\ Commit(runMeasure([World EXCEPT !.frames = @ (-) SetToBag({MeasureFrame})]),
              "frame")
    /\ UNCHANGED << unloaded, domReady, bootstrapped, readinessVars >>

\* a frame callback of tryTrackMedia: function () { scheduleMeasure(true) }
onLooseFrame ==
    /\ Task /\ BagIn(LooseFrame, frames)
    /\ Commit(scheduleMeasure([World EXCEPT !.frames = @ (-) SetToBag({LooseFrame})],
                              TRUE),
              "looseFrame")
    /\ UNCHANGED << unloaded, domReady, bootstrapped, readinessVars >>

\* requestFrame(onIframe) of an iframe found with a complete document
onIframeFrame(el) ==
    /\ Task /\ BagIn(IframeFrame(el), frames)
    /\ Commit(onSettled([World EXCEPT !.frames = @ (-) SetToBag({IframeFrame(el)})], el),
              "iframeFrame")
    /\ UNCHANGED << unloaded, domReady, bootstrapped, readinessVars >>

\* the callback of the fallback timer
onFallbackTimer(t) ==
    /\ Task /\ t.kind = "fallback" /\ BagIn(t, timeouts)
    /\ LET w1 == [World EXCEPT !.timeouts = @ (-) SetToBag({t}),
                               !.state.fallbackTimer = null]
           w2 == scheduleMeasure(w1, TRUE)
           w3 == [w2 EXCEPT !.state.fallbackDelay =
                      Min(MAX_FALLBACK_MS, (@ * 3) \div 2)]
       IN  Commit(scheduleFallback(w3), "fallback")
    /\ UNCHANGED << unloaded, domReady, bootstrapped, readinessVars >>

\* the callback of the debounce timer of debouncedMeasure
onDebounceTimer(t) ==
    /\ Task /\ t.kind = "debounce" /\ BagIn(t, timeouts)
    /\ LET w1 == [World EXCEPT !.timeouts = @ (-) SetToBag({t}),
                               !.state.timer = null]
       IN  Commit(scheduleMeasure(w1, TRUE), "debounce")
    /\ UNCHANGED << unloaded, domReady, bootstrapped, readinessVars >>

\* a timer of queueStabilization fires; armed together, they fire in the
\* order of their delays
onStabilizationTimer(t) ==
    /\ Task /\ t.kind = "stabilization" /\ BagIn(t, timeouts)
    /\ \A u \in BagToSet(timeouts) : u.kind = "stabilization" => t.delay <= u.delay
    /\ Commit(scheduleMeasure([World EXCEPT !.timeouts = @ (-) SetToBag({t})], TRUE),
              "stabilization")
    /\ UNCHANGED << unloaded, domReady, bootstrapped, readinessVars >>

\* the microtask of requestDebouncedMeasure
onMicrotask ==
    /\ ~unloaded /\ state.microtask
    /\ Commit(debouncedMeasure([World EXCEPT !.state.microtask = FALSE]), "microtask")
    /\ UNCHANGED << unloaded, domReady, bootstrapped, readinessVars >>

\* the MutationObserver callback: requestDebouncedMeasure, scanForMedia over
\* the added nodes, pruneTrailingNodes
onMutation(scan) ==
    /\ Task /\ BagIn("mutation", observers)
    /\ ScanOK(scan)
    /\ LET w1 == scanForMedia(requestDebouncedMeasure(World), scan)
           w2 == IF w1.trailing
                 THEN scheduleMeasure([w1 EXCEPT !.trailing = FALSE], TRUE)
                 ELSE w1
       IN  Commit(w2, "mutation")
    /\ UNCHANGED << unloaded, domReady, bootstrapped, readinessVars >>

\* the ResizeObserver callback
onResize ==
    /\ Task /\ BagIn("resize", observers)
    /\ Commit(requestDebouncedMeasure(World), "resize")
    /\ UNCHANGED << unloaded, domReady, bootstrapped, readinessVars >>

\* visualViewport resize / scroll
onViewportEvent(type) ==
    /\ Task /\ BagIn(ListenerKey("visualViewport", type), listeners)
    /\ Commit(requestDebouncedMeasure(World), "viewport")
    /\ UNCHANGED << unloaded, domReady, bootstrapped, readinessVars >>

\* the listeners whose handler is function () { scheduleMeasure(true) }
GlobalEvents ==
    { ListenerKey("fonts", t) : t \in {"loadingdone", "loadingerror"} }
    \cup { ListenerKey("window", t) : t \in {"load", "pageshow", "orientationchange", "resize"} }
    \cup { ListenerKey("document", t) : t \in {"DOMContentLoaded", "readystatechange"} }

onGlobalEvent(key) ==
    /\ Task /\ BagIn(key, listeners)
    /\ Commit(scheduleMeasure(World, TRUE), "event")
    /\ UNCHANGED << unloaded, domReady, bootstrapped, readinessVars >>

\* fonts.ready.then(handler)
onFontsReady ==
    /\ Task /\ fontsReady
    /\ Commit(scheduleMeasure([World EXCEPT !.fontsReady = FALSE], TRUE), "fontsReady")
    /\ UNCHANGED << unloaded, domReady, bootstrapped, readinessVars >>

\* window 'message': event.data as a JS value.  The text of a string is a
\* sequence of lexemes: punctuation, a double-quoted literal, a number, or
\* any other run of characters
MESSAGE_KEY == "__AUTO_HEIGHT__"

Punct(c) == [k |-> "punct", v |-> c]
Quoted(s) == [k |-> "quoted", v |-> s]
Numeral(n) == [k |-> "numeral", n |-> n]
Word(s) == [k |-> "word", v |-> s]

JsUndefined == [type |-> "undefined"]
JsNull == [type |-> "null"]
JsBoolean(b) == [type |-> "boolean", bool |-> b]
JsNumber(n) == [type |-> "number", num |-> n]
JsString(text) == [type |-> "string", text |-> text]
JsObject(fields) == [type |-> "object", fields |-> fields]

\* the string whose characters are s, with no quote, brace or colon in it
PlainString(s) == JsString(<< Word(s) >>)

\* !value
Falsy(value) ==
    \/ value.type \in {"undefined", "null"}
    \/ value.type = "boolean" /\ ~value.bool
    \/ value.type = "number" /\ value.num = 0
    \/ value.type = "string" /\ value.text = << >>

SyntaxError == [type |-> "SyntaxError"]

\* JSON.parse of one lexeme: a literal, a number, null, true or false
ParseScalar(lex) ==
    CASE lex.k = "quoted" -> PlainString(lex.v)
      [] lex.k = "numeral" -> JsNumber(lex.n)
      [] lex.k = "word" /\ lex.v = "null" -> JsNull
      [] lex.k = "word" /\ lex.v = "true" -> JsBoolean(TRUE)
      [] lex.k = "word" /\ lex.v = "false" -> JsBoolean(FALSE)
      [] OTHER -> SyntaxError

\* JSON.parse of the members of an object: "key" : scalar, separated by
\* commas; a later member replaces an earlier one of the same key
RECURSIVE ParseMembers(_, _)
ParseMembers(lexemes, fields) ==
    IF Len(lexemes) < 3 THEN SyntaxError
    ELSE LET key == lexemes[1]
             val == ParseScalar(lexemes[3])
         IN  IF key.k # "quoted" \/ lexemes[2] # Punct(":") \/ val = SyntaxError
             THEN SyntaxError
             ELSE LET more == (key.v :> val) @@ fields
                  IN  IF Len(lexemes) = 3 THEN JsObject(more)
                      ELSE IF lexemes[4] # Punct(",") THEN SyntaxError
                      ELSE ParseMembers(SubSeq(lexemes, 5, Len(lexemes)), more)

\* JSON.parse(text) for scalars and objects of scalars
JSONParse(text) ==
    IF Len(text) = 1 THEN ParseScalar(text[1])
    ELSE IF Len(text) >= 2 /\ text[1] = Punct("{") /\ text[Len(text)] = Punct("}")
    THEN IF Len(text) = 2 THEN JsObject(<< >>)
         ELSE ParseMembers(SubSeq(text, 2, Len(text) - 1), << >>)
    ELSE SyntaxError

\* value.topic
Topic(value) ==
    IF value.type = "object" /\ "topic" \in DOMAIN value.fields
    THEN value.fields["topic"]
    ELSE JsUndefined

\* mutant: any JSON value that is not falsy counts
TopicMatches_AnyJSON(parsed) == ~Falsy(parsed)

\* parsed && parsed.topic === MESSAGE_KEY
TopicMatches(parsed) == ~Falsy(parsed) /\ Topic(parsed) = PlainString(MESSAGE_KEY)

\* the handler of watchMessages asks for a measurement
Requested(data) ==
    IF Falsy(data) THEN FALSE
    ELSE IF data = PlainString(MESSAGE_KEY) THEN TRUE
    ELSE IF data.type = "string"
    THEN LET parsed == JSONParse(data.text)
         IN  parsed # SyntaxError /\ TopicMatches(parsed)
    ELSE FALSE

\* the lexemes of a JS scalar in JSON
ScalarLexeme(value) ==
    CASE value.type = "string" -> Quoted(value.text[1].v)
      [] value.type = "number" -> Numeral(value.num)
      [] value.type = "null" -> Word("null")
      [] value.type = "boolean" -> Word(IF value.bool THEN "true" ELSE "false")

\* JSON.stringify of an object given as the sequence of its (key, value)
\* members, as the host encodes a control message
RECURSIVE StringifyMembers(_)
StringifyMembers(members) ==
    IF members = << >> THEN << >>
    ELSE << Quoted(members[1][1]), Punct(":"), ScalarLexeme(members[1][2]) >>
         \o (IF Len(members) = 1 THEN << >> ELSE << Punct(",") >>)
         \o StringifyMembers(Tail(members))

JSONStringify(members) ==
    JsString(<< Punct("{") >> \o StringifyMembers(members) \o << Punct("}") >>)

\* the objects a host encodes: with the marker, with another topic, without
\* a topic (the sentinel under another key), empty
MarkedObjects ==
    { << << "topic", PlainString(MESSAGE_KEY) >> >>,
      << << "id", JsNumber(1) >>, << "topic", PlainString(MESSAGE_KEY) >> >>,
      << << "topic", PlainString("other") >>, << "topic", PlainString(MESSAGE_KEY) >> >> }

UnmarkedObjects ==
    { << >>,
      << << "topic", PlainString("other") >> >>,
      << << "id", PlainString(MESSAGE_KEY) >> >>,
      << << "topic", JsNull >> >>,
      << << "topic", PlainString(MESSAGE_KEY) >>, << "topic", JsNumber(1) >> >> }

\* what a message event can carry
MessageData ==
    { JsUndefined, JsNull, JsNumber(0), JsNumber(7), JsBoolean(TRUE),
      JsString(<< >>),
      PlainString(MESSAGE_KEY),
      PlainString("hello"),
      JsString(<< Quoted(MESSAGE_KEY) >>),
      JsString(<< Word("null") >>),
      JsString(<< Numeral(7) >>),
      JsString(<< Punct("{"), Quoted("topic"), Punct(":") >>),
      JsString(<< Punct("{"), Quoted("topic"), Punct(":"), Quoted(MESSAGE_KEY) >>),
      JsString(<< Punct("{"), Word("topic"), Punct(":"), Quoted(MESSAGE_KEY), Punct("}") >>),
      JsObject([topic |-> PlainString(MESSAGE_KEY)]) }
    \cup { JSONStringify(m) : m \in MarkedObjects \cup UnmarkedObjects }

\* one control message and one other message
SampleMessages == { PlainString(MESSAGE_KEY), PlainString("hello") }

onMessage(data) ==
    /\ Task /\ BagIn(ListenerKey("window", "message"), listeners)
    /\ Commit(IF Requested(data) THEN scheduleMeasure(World, TRUE) ELSE World, "message")
    /\ UNCHANGED << unloaded, domReady, bootstrapped, readinessVars >>

\* a settle event of a media element that is still loading; the handler
\* runs if the element's listener is registered
onMediaEvent(el, type) ==
    /\ Task /\ media[el] = "loading" /\ type \in SettleEvents[el]
    /\ LET w1 == [World EXCEPT !.media[el] = "settled"]
       IN  Commit(IF BagIn(ListenerKey(el, type), listeners) THEN onSettled(w1, el) ELSE w1,
                  "mediaEvent")
    /\ UNCHANGED << unloaded, domReady, bootstrapped, readinessVars >>

\* window 'unload': cleanupAll, and the document is gone
Unload ==
    /\ Task /\ BagIn(ListenerKey("window", "unload"), listeners)
    /\ Commit(cleanupAll(World), "unload")
    /\ unloaded' = TRUE
    /\ UNCHANGED << domReady, bootstrapped, readinessVars >>

\* the page calls window[GLOBAL_KEY].destroy()
Destroy ==
    /\ Task /\ session = "live"
    /\ Commit(cleanupAll(World), "destroy")
    /\ UNCHANGED << unloaded, domReady, bootstrapped, readinessVars >>

AgentTypeOK ==
    /\ session \in {"none", "live", "destroyed"}
    /\ state.pendingLoads \in 0..Cardinality(Elements)
    /\ state.anomalyCount \in 0..MaxAnomalyCount
    /\ state.fallbackDelay \in INITIAL_FALLBACK_MS..MAX_FALLBACK_MS
    /\ trackedMedia \subseteq Elements

----------------------------------------------------------------------------
(* The script composer (utils/composeInjectedScript) *)

VARIABLES
    chunks,             \* the arguments of a call of composeInjectedScript
    composed            \* <<>> before the call returns, then <<its result>>

composerVars == << chunks, composed >>

\* a line break, and the characters of the statement the composer appends
LineBreak == "\n"

TrueStatement == << "t", "r", "u", "e", ";" >>

\* a string is the sequence of its characters
ScriptText(chars) == [type |-> "string", chars |-> chars]

\* Boolean(chunk) for a chunk of type string | undefined
Truthy(chunk) == chunk.type = "string" /\ chunk.chars # << >>

\* parts.join(separator)
RECURSIVE Join(_, _)
Join(parts, separator) ==
    IF parts = << >> THEN << >>
    ELSE IF Len(parts) = 1 THEN parts[1].chars
    ELSE parts[1].chars \o separator \o Join(Tail(parts), separator)

\* mutant: the chunks are joined as they come, without filter(Boolean);
\* Array.prototype.join writes an undefined element as the empty string
composeInjectedScript_NoFilter(args) ==
    LET parts == [i \in 1..Len(args) |->
                     IF args[i].type = "string" THEN args[i] ELSE ScriptText(<< >>)]
    IN  IF Len(parts) = 0
        THEN JsUndefined
        ELSE ScriptText(Join(parts, << LineBreak >>) \o << LineBreak >> \o TrueStatement)

\* composeInjectedScript(...chunks)
composeInjectedScript(args) ==
    LET parts == SelectSeq(args, Truthy)
    IN  IF Len(parts) = 0
        THEN JsUndefined
        ELSE ScriptText(Join(parts, << LineBreak >>) \o << LineBreak >> \o TrueStatement)

\* the chunks of the calls: absent, empty, blank, one statement, two lines
Chunks ==
    { JsUndefined,
      ScriptText(<< >>),
      ScriptText(<< " " >>),
      ScriptText(<< "a", "(", ")", ";" >>),
      ScriptText(<< "b", ";", LineBreak, "c", ";" >>) }

MaxChunks == 3

ChunkLists == UNION { [1..n -> Chunks] : n \in 0..MaxChunks }

\* no call is in progress
ComposerIdle == chunks = << >> /\ composed = << >>

\* a call with some arguments, before it returns
ComposerInit == chunks \in ChunkLists /\ composed = << >>

\* the call returns
Compose ==
    /\ composed = << >>
    /\ composed' = << composeInjectedScript(chunks) >>
    /\ UNCHANGED chunks

----------------------------------------------------------------------------
(* The Container (components/SizedWebView) *)

VARIABLES
    props,              \* the props of the Container's latest render
    rendered,           \* what that render returned: the View and its WebView
    delivered           \* the calls the last message event led to, in order

containerVars == << props, rendered, delivered >>

\* the hook, or the Agent, used without the Container
Unrendered == [type |-> "unrendered"]

ContainerIdle == props = Unrendered /\ rendered = Unrendered /\ delivered = << >>

JsFunction(name) == [type |-> "function", name |-> name]

JsArray(items) == [type |-> "array", items |-> items]

\* the source text of the bridge: a function expression over several lines
\* and its call; of its characters the first and the last line are kept
AUTO_HEIGHT_BRIDGE ==
    ScriptText(<< "(", "(", ")", " ", "=", ">", " ", "{", LineBreak,
                  "}", ")", "(", ")", ";" >>)

\* a destructuring default: it replaces undefined only
Default(value, fallback) == IF value = JsUndefined THEN fallback ELSE value

\* value ?? fallback
Coalesce(value, fallback) == IF value \in {JsUndefined, JsNull} THEN fallback ELSE value

\* the options useAutoHeight gets from a render with props p
HookMinHeight(p) == Default(p.minHeight, JsNumber(0)).num

HookCallback(p) == IF p.onHeightChange = JsUndefined THEN NoCallback ELSE p.onHeightChange.name

\* mutant: the bridge comes after the caller's script
composedBeforeContentScript_BridgeLast(p) ==
    composeInjectedScript(<< p.injectedJavaScriptBeforeContentLoaded, AUTO_HEIGHT_BRIDGE >>)

composedBeforeContentScript(p) ==
    composeInjectedScript(<< AUTO_HEIGHT_BRIDGE, p.injectedJavaScriptBeforeContentLoaded >>)

composedInjectedScript(p) == composeInjectedScript(<< p.injectedJavaScript >>)

\* mutant: the container's style is the caller's alone
containerStyles_NoHeight(p, h) == << p.containerStyle >>

\* [{ height }, containerStyle]
containerStyles(p, h) == << JsObject("height" :> JsNumber(h)), p.containerStyle >>

\* the props of the WebView element; handleMessage holds the onMessage of
\* the render that created it
WebViewProps(p) ==
    [ originWhitelist |-> Coalesce(p.originWhitelist, JsArray(<< "*" >>)),
      javaScriptEnabled |-> JsBoolean(TRUE),
      automaticallyAdjustContentInsets |->
          Default(p.automaticallyAdjustContentInsets, JsBoolean(TRUE)),
      scrollEnabled |-> Default(p.scrollEnabled, JsBoolean(FALSE)),
      showsVerticalScrollIndicator |->
          Default(p.showsVerticalScrollIndicator, JsBoolean(FALSE)),
      injectedJavaScript |-> composedInjectedScript(p),
      injectedJavaScriptBeforeContentLoaded |-> composedBeforeContentScript(p),
      onMessage |-> [type |-> "function", name |-> "handleMessage",
                     onMessage |-> p.onMessage] ]

\* the element the component returns for props p and the hook's height h
SizedWebView(p, h) ==
    [ type |-> "View", style |-> containerStyles(p, h), webView |-> WebViewProps(p) ]

\* the value a style list gives a key: the last entry that sets it wins
RECURSIVE Flatten(_, _)
Flatten(styles, key) ==
    IF styles = << >> THEN JsUndefined
    ELSE LET last == styles[Len(styles)]
         IN  IF last.type = "object" /\ key \in DOMAIN last.fields
             THEN last.fields[key]
             ELSE Flatten(SubSeq(styles, 1, Len(styles) - 1), key)

\* the caller's props.  Absent props are undefined.
NoProps ==
    [ minHeight |-> JsUndefined, containerStyle |-> JsUndefined,
      injectedJavaScript |-> JsUndefined,
      injectedJavaScriptBeforeContentLoaded |-> JsUndefined,
      onMessage |-> JsUndefined, onHeightChange |-> JsUndefined,
      originWhitelist |-> JsUndefined, showsVerticalScrollIndicator |-> JsUndefined,
      scrollEnabled |-> JsUndefined, automaticallyAdjustContentInsets |-> JsUndefined ]

CallerScripts == { JsUndefined, ScriptText(<< >>), ScriptText(<< "a", "(", ")", ";" >>) }

OptionalBooleans == { JsUndefined, JsBoolean(TRUE), JsBoolean(FALSE) }

OriginWhitelists ==
    { JsUndefined, JsArray(<< >>), JsArray(<< "https://example.com" >>) }

\* a style without a height, and one that sets a height
CallerStyles ==
    { JsUndefined, JsObject("backgroundColor" :> JsString("red")),
      JsObject("height" :> JsNumber(5 * Scale)) }

\* the props of the renders: the caller varies its scripts, its handlers
\* and hook options, the configuration of the surface, or the container's style
ScriptProps ==
    { [NoProps EXCEPT !.injectedJavaScript = post,
                      !.injectedJavaScriptBeforeContentLoaded = pre] :
          post \in CallerScripts, pre \in CallerScripts }

HandlerProps ==
    { [NoProps EXCEPT !.onMessage = g, !.onHeightChange = f, !.minHeight = m] :
          g \in {JsUndefined, JsFunction("g")},
          f \in {JsUndefined, JsFunction("f")},
          m \in {JsUndefined, JsNumber(Scale + 5)} }

\* the surface's configuration: nothing supplied, one prop, or all four
Supplied(value) == IF value = JsUndefined THEN 0 ELSE 1

SurfaceProps ==
    { [NoProps EXCEPT !.originWhitelist = c[1], !.showsVerticalScrollIndicator = c[2],
                      !.scrollEnabled = c[3], !.automaticallyAdjustContentInsets = c[4]] :
          c \in { x \in OriginWhitelists \X OptionalBooleans \X OptionalBooleans
                                        \X OptionalBooleans :
                     Supplied(x[1]) + Supplied(x[2]) + Supplied(x[3]) + Supplied(x[4])
                         \in {0, 1, 4} } }

StyleProps == { [NoProps EXCEPT !.containerStyle = c] : c \in CallerStyles }

ContainerProps == ScriptProps \cup HandlerProps \cup SurfaceProps \cup StyleProps

\* a message event of the WebView; its data is a string
MessageEvent(data) == [nativeEvent |-> [data |-> data]]

MessageEvents == { MessageEvent([type |-> "string", chars |-> s]) : s \in StringValues }

\* the component's first render
ContainerInit ==
    /\ props \in ContainerProps
    /\ rendered = SizedWebView(props, height)
    /\ delivered = << >>

\* the element on screen after a step
Rerendered(p) == rendered' = IF mounted' THEN SizedWebView(p, height') ELSE Unrendered

\* the caller renders the Container again with other props; the hook's
\* effect runs when its options changed
Render(p) ==
    /\ mounted
    /\ p # props
    /\ props' = p
    /\ IF << HookMinHeight(p), HookCallback(p) >> # << minHeight, onHeightChange >>
       THEN Rerender(HookMinHeight(p), HookCallback(p))
       ELSE UNCHANGED reconcilerVars
    /\ Rerendered(p)
    /\ delivered' = << >>

\* mutant: a caller handler takes the place of the hook
handleMessage_HandlerOnly(event) ==
    LET onMessageProp == rendered.webView.onMessage.onMessage
    IN  /\ mounted
        /\ UNCHANGED props
        /\ IF onMessageProp = JsUndefined
           THEN /\ setHeightFromPayload(event.nativeEvent.data)
                /\ delivered' = << [hook |-> "setHeightFromPayload",
                                    rawValue |-> event.nativeEvent.data] >>
           ELSE /\ UNCHANGED reconcilerVars
                /\ delivered' = << [callback |-> onMessageProp, event |-> event] >>
        /\ Rerendered(props)

\* the WebView calls the onMessage prop it was rendered with
handleMessage(event) ==
    LET onMessageProp == rendered.webView.onMessage.onMessage
    IN  /\ mounted
        /\ UNCHANGED props
        /\ setHeightFromPayload(event.nativeEvent.data)
        /\ delivered' =
              << [hook |-> "setHeightFromPayload", rawValue |-> event.nativeEvent.data] >>
                  \o (IF onMessageProp = JsUndefined THEN << >>
                      ELSE << [callback |-> onMessageProp, event |-> event] >>)
        /\ Rerendered(props)

\* a frame of the hook; a commit renders the component again
ContainerFrame ==
    /\ RunFrame
    /\ Rerendered(props)
    /\ delivered' = << >>
    /\ UNCHANGED props

\* the caller removes the Container
ContainerUnmount ==
    /\ Unmount
    /\ Rerendered(props)
    /\ delivered' = << >>
    /\ UNCHANGED props

----------------------------------------------------------------------------
(* The channel from the Agent to the Container *)

VARIABLES
    inflight            \* the messages postMessage handed over, oldest first,
                        \* that the WebView has not yet raised as message events

\* no Agent is connected to a Container
ChannelIdle == inflight = << >>

\* the channel holds at most MaxInflight messages
MaxInflight == 2

\* String(n) for an integer n >= 0: its decimal digits
RECURSIVE NumberToString(_)
NumberToString(n) ==
    IF n < 10 THEN << DigitChars[n + 1] >>
    ELSE NumberToString(n \div 10) \o << DigitChars[(n % 10) + 1] >>

\* channel.postMessage(String(sanitized)) for the heights a step posted
Outbound(heights) ==
    [i \in 1..Len(heights) |->
        [type |-> "string", chars |-> NumberToString(heights[i] \div Scale)]]

\* the messages of a step of the Agent enter the channel
Handover ==
    /\ inflight' = inflight \o Outbound(posted')
    /\ Len(inflight') <= MaxInflight

\* the WebView raises the oldest message as a message event
Deliver ==
    /\ inflight # << >>
    /\ inflight' = Tail(inflight)
    /\ handleMessage(MessageEvent(Head(inflight)))

\* documents whose content measures 1, 2 and 4 px
SmallLayouts == { << Scale, 0 >>, << 2 * Scale, Scale >>, << MaxDp * Scale - 5, 0 >> }

----------------------------------------------------------------------------
(* Specifications *)

vars == << reconcilerVars, agentVars, composerVars, containerVars, inflight >>

\* what a step of the Reconciler alone, or of the Agent alone, leaves as it is
besidesReconciler == << agentVars, composerVars, containerVars, inflight >>

besidesAgent == << reconcilerVars, composerVars, containerVars, inflight >>

\* the Reconciler alone: the Agent stays as it is before any injection
Next ==
    \/ (\E rawValue \in Payloads : setHeightFromPayload(rawValue)) /\ UNCHANGED besidesReconciler
    \/ (\E m \in MinHeights, cb \in Callbacks : Rerender(m, cb)) /\ UNCHANGED besidesReconciler
    \/ RunFrame /\ UNCHANGED besidesReconciler
    \/ StrayFlush /\ UNCHANGED besidesReconciler
    \/ Unmount /\ UNCHANGED besidesReconciler

\* a new hook, and the Agent before any injection
SpecInit == Init /\ AgentIdle /\ ComposerIdle /\ ContainerIdle /\ ChannelIdle

Spec == SpecInit /\ [][Next]_vars

\* the Agent alone: the Reconciler stays as it is after construction
ReconcilerIdle ==
    /\ Init
    /\ minHeight = 0 /\ onHeightChange = NoCallback /\ hasRAF /\ hasCancel
    /\ ComposerIdle /\ ContainerIdle /\ ChannelIdle

\* the session of a document with a working channel and ordinary geometry:
\* every callback of the Agent
QuietLayouts == { l \in Layouts : measureHeight(l) \in 1..(ANOMALY_LIMIT * Scale) }

AgentNext ==
    \/ (\E scan \in Scans : Inject(scan)) /\ UNCHANGED besidesAgent
    \/ Reinject /\ UNCHANGED besidesAgent
    \/ (\E scan \in Scans : DomReady(scan)) /\ UNCHANGED besidesAgent
    \/ onFrame /\ UNCHANGED besidesAgent
    \/ onLooseFrame /\ UNCHANGED besidesAgent
    \/ (\E el \in Elements : onIframeFrame(el)) /\ UNCHANGED besidesAgent
    \/ (\E t \in BagToSet(timeouts) : onFallbackTimer(t)) /\ UNCHANGED besidesAgent
    \/ (\E t \in BagToSet(timeouts) : onDebounceTimer(t)) /\ UNCHANGED besidesAgent
    \/ (\E t \in BagToSet(timeouts) : onStabilizationTimer(t)) /\ UNCHANGED besidesAgent
    \/ onMicrotask /\ UNCHANGED besidesAgent
    \/ (\E scan \in Scans : onMutation(scan)) /\ UNCHANGED besidesAgent
    \/ onResize /\ UNCHANGED besidesAgent
    \/ (\E type \in {"resize", "scroll"} : onViewportEvent(type)) /\ UNCHANGED besidesAgent
    \/ (\E key \in GlobalEvents : onGlobalEvent(key)) /\ UNCHANGED besidesAgent
    \/ onFontsReady /\ UNCHANGED besidesAgent
    \/ (\E data \in SampleMessages : onMessage(data)) /\ UNCHANGED besidesAgent
    \/ (\E el \in Elements, type \in UNION {SettleEvents[x] : x \in Elements} :
            onMediaEvent(el, type)) /\ UNCHANGED besidesAgent
    \/ Unload /\ UNCHANGED besidesAgent
    \/ Destroy /\ UNCHANGED besidesAgent
    \/ (\E l \in QuietLayouts, t \in BOOLEAN : ContentChange(l, t))
          /\ UNCHANGED besidesAgent

AgentSpecInit ==
    /\ ReconcilerIdle
    /\ AgentInit /\ layout \in QuietLayouts /\ channel = "ok"
    /\ capabilities = Capabilities

AgentSpec == AgentSpecInit /\ [][AgentNext]_vars

\* the measurements of a session whose document shows every layout and
\* whose channel comes and goes, driven by re-injection, the fallback and
\* stabilization timers and the window's events
MeasureNext ==
    \/ Inject(NoScan) /\ UNCHANGED besidesAgent
    \/ DomReady(NoScan) /\ UNCHANGED besidesAgent
    \/ Reinject /\ UNCHANGED besidesAgent
    \/ (\E t \in BagToSet(timeouts) : onFallbackTimer(t)) /\ UNCHANGED besidesAgent
    \/ (\E t \in BagToSet(timeouts) : onStabilizationTimer(t)) /\ UNCHANGED besidesAgent
    \/ (\E key \in GlobalEvents : onGlobalEvent(key)) /\ UNCHANGED besidesAgent
    \/ (\E l \in Layouts, t \in BOOLEAN : ContentChange(l, t)) /\ UNCHANGED besidesAgent
    \/ (\E c \in Channels : ChannelChange(c)) /\ UNCHANGED besidesAgent

MeasureSpecInit == ReconcilerIdle /\ AgentInit /\ capabilities = Capabilities

MeasureSpec == MeasureSpecInit /\ [][MeasureNext]_vars

\* the messages of the host: every message event, in a session whose
\* document shows every layout and whose channel comes and goes
MessageNext ==
    \/ Inject(NoScan) /\ UNCHANGED besidesAgent
    \/ DomReady(NoScan) /\ UNCHANGED besidesAgent
    \/ (\E data \in MessageData : onMessage(data)) /\ UNCHANGED besidesAgent
    \/ (\E t \in BagToSet(timeouts) : onFallbackTimer(t)) /\ UNCHANGED besidesAgent
    \/ (\E l \in Layouts, t \in BOOLEAN : ContentChange(l, t)) /\ UNCHANGED besidesAgent
    \/ (\E c \in Channels : ChannelChange(c)) /\ UNCHANGED besidesAgent

MessageSpecInit == ReconcilerIdle /\ AgentInit /\ capabilities = Capabilities

MessageSpec == MessageSpecInit /\ [][MessageNext]_vars

\* a window that lacks MutationObserver, ResizeObserver or both: bootstrap
\* and every trigger of a document without media
CapabilityNext ==
    \/ Inject(NoScan) /\ UNCHANGED besidesAgent
    \/ DomReady(NoScan) /\ UNCHANGED besidesAgent
    \/ onFrame /\ UNCHANGED besidesAgent
    \/ (\E t \in BagToSet(timeouts) : onFallbackTimer(t)) /\ UNCHANGED besidesAgent
    \/ (\E t \in BagToSet(timeouts) : onDebounceTimer(t)) /\ UNCHANGED besidesAgent
    \/ (\E t \in BagToSet(timeouts) : onStabilizationTimer(t)) /\ UNCHANGED besidesAgent
    \/ onMicrotask /\ UNCHANGED besidesAgent
    \/ onMutation(NoScan) /\ UNCHANGED besidesAgent
    \/ onResize /\ UNCHANGED besidesAgent
    \/ (\E key \in GlobalEvents : onGlobalEvent(key)) /\ UNCHANGED besidesAgent
    \/ (\E l \in QuietLayouts, t \in BOOLEAN : ContentChange(l, t))
          /\ UNCHANGED besidesAgent

CapabilitySpecInit ==
    /\ ReconcilerIdle
    /\ AgentInit /\ layout \in QuietLayouts /\ channel = "ok"

CapabilitySpec == CapabilitySpecInit /\ [][CapabilityNext]_vars

\* the calls of the script composer
ComposeNext ==
    Compose /\ UNCHANGED << reconcilerVars, agentVars, containerVars, inflight >>

ComposeSpecInit == Init /\ AgentIdle /\ ContainerIdle /\ ChannelIdle /\ ComposerInit
                       /\ minHeight = 0 /\ onHeightChange = NoCallback /\ hasRAF /\ hasCancel

ComposeSpec == ComposeSpecInit /\ [][ComposeNext]_vars

\* the Container and its hook: renders, message events, frames, unmount
ContainerNext ==
    \/ (\E p \in ContainerProps : Render(p)) /\ UNCHANGED << agentVars, composerVars, inflight >>
    \/ (\E event \in MessageEvents : handleMessage(event))
          /\ UNCHANGED << agentVars, composerVars, inflight >>
    \/ ContainerFrame /\ UNCHANGED << agentVars, composerVars, inflight >>
    \/ ContainerUnmount /\ UNCHANGED << agentVars, composerVars, inflight >>

ContainerSpecInit ==
    /\ Init /\ AgentIdle /\ ComposerIdle /\ ChannelIdle
    /\ ContainerInit
    /\ minHeight = HookMinHeight(props) /\ onHeightChange = HookCallback(props)

ContainerSpec == ContainerSpecInit /\ [][ContainerNext]_vars

\* the Agent connected to a Container over a reliable, ordered channel:
\* the content changes, the Agent measures and posts, the WebView raises
\* the messages, the hook's frames fire.  The props do not change.
EndToEndNext ==
    \/ Inject(NoScan) /\ Handover /\ UNCHANGED << reconcilerVars, composerVars, containerVars >>
    \/ DomReady(NoScan) /\ Handover
          /\ UNCHANGED << reconcilerVars, composerVars, containerVars >>
    \/ (\E t \in BagToSet(timeouts) : onFallbackTimer(t)) /\ Handover
          /\ UNCHANGED << reconcilerVars, composerVars, containerVars >>
    \/ (\E l \in SmallLayouts : ContentChange(l, FALSE)) /\ Handover
          /\ UNCHANGED << reconcilerVars, composerVars, containerVars >>
    \/ Deliver /\ UNCHANGED << agentVars, composerVars >>
    \/ ContainerFrame /\ UNCHANGED << agentVars, composerVars, inflight >>

EndToEndSpecInit ==
    /\ Init /\ ComposerIdle /\ ChannelIdle
    /\ ContainerInit /\ props \in HandlerProps /\ props.onMessage = JsUndefined
    /\ minHeight = HookMinHeight(props) /\ onHeightChange = HookCallback(props)
    /\ AgentStart /\ layout \in SmallLayouts /\ ~trailing /\ channel = "ok"
    /\ capabilities = Capabilities

EndToEndSpec == EndToEndSpecInit /\ [][EndToEndNext]_vars

\* forced measurements of a document that shows every layout, suspect
\* heights and trailing nodes included, while frames and debounce timers of
\* the observers are pending
ForcedNext ==
    \/ Inject(NoScan) /\ UNCHANGED besidesAgent
    \/ DomReady(NoScan) /\ UNCHANGED besidesAgent
    \/ Reinject /\ UNCHANGED besidesAgent
    \/ onFrame /\ UNCHANGED besidesAgent
    \/ (\E t \in BagToSet(timeouts) : onFallbackTimer(t)) /\ UNCHANGED besidesAgent
    \/ (\E t \in BagToSet(timeouts) : onDebounceTimer(t)) /\ UNCHANGED besidesAgent
    \/ onMicrotask /\ UNCHANGED besidesAgent
    \/ onMutation(NoScan) /\ UNCHANGED besidesAgent
    \/ (\E l \in Layouts, t \in BOOLEAN : ContentChange(l, t)) /\ UNCHANGED besidesAgent

ForcedSpecInit ==
    /\ ReconcilerIdle
    /\ AgentInit /\ channel = "ok"
    /\ capabilities = Capabilities

ForcedSpec == ForcedSpecInit /\ [][ForcedNext]_vars

\* the readiness of the document: injection before and after it is ready,
\* re-injection, teardown, and the events of a document that finishes
\* loading
ReadinessNext ==
    \/ Inject(NoScan) /\ UNCHANGED besidesAgent
    \/ Reinject /\ UNCHANGED besidesAgent
    \/ DomReady(NoScan) /\ UNCHANGED besidesAgent
    \/ onReadyEvent /\ UNCHANGED besidesAgent
    \/ (\E key \in GlobalEvents : onGlobalEvent(key)) /\ UNCHANGED besidesAgent
    \/ (\E t \in BagToSet(timeouts) : onFallbackTimer(t)) /\ UNCHANGED besidesAgent
    \/ Destroy /\ UNCHANGED besidesAgent
    \/ (\E l \in QuietLayouts, t \in BOOLEAN : ContentChange(l, t))
          /\ UNCHANGED besidesAgent

ReadinessSpecInit ==
    /\ ReconcilerIdle
    /\ AgentInit /\ layout \in QuietLayouts /\ channel = "ok"
    /\ capabilities = Capabilities

ReadinessSpec == ReadinessSpecInit /\ [][ReadinessNext]_vars

----------------------------------------------------------------------------
(* Properties of the Reconciler *)

\* the onHeightChange calls of a commit of h made by a callback holding cb
Notification(cb, h) == IF cb = NoCallback THEN <<>> ELSE << [cb |-> cb, h |-> h] >>

Accepted == op.name = "setHeightFromPayload" /\ op.outcome = "accepted"

\* a step that commits nothing, schedules nothing and notifies nobody
Untouched ==
    /\ UNCHANGED << height, lastHeightRef, pendingHeightRef, frameRef, rafQueue, rafId >>
    /\ emitted' = <<>>

\* C1: in every reachable state the committed height is at least the
\* configured minHeight.
C1_HeightAtLeastMinHeight == height >= minHeight

C3_SingleFlight ==
    /\ [](/\ Cardinality(rafQueue) <= 1
          /\ Len(pendingHeightRef) <= 1
          /\ \A f \in rafQueue : frameRef = << f.id >>)
    /\ [][ (frameRef # null /\ op'.outcome \in {"accepted", "scheduled"}) =>
              /\ rafId' = rafId
              /\ rafQueue' = rafQueue
              /\ frameRef' = frameRef
              /\ pendingHeightRef' # undefined
              /\ UNCHANGED << height, lastHeightRef >>
              /\ emitted' = <<>> ]_vars

\* a second request arrived while the frame was outstanding
C3_Witness ==
    /\ sched.payloads = 2
    /\ sched.src = "minHeight"
    /\ Cardinality(rafQueue) = 1
    /\ rafId = 1

\* the claim's case of C4: a valid payload whose candidate is within 1 dp of
\* the committed height of a mounted hook
C4_Case(rawValue) ==
    LET n == NumericValue(rawValue)
    IN  /\ mounted
        /\ n.cls = "finite" /\ n.v > 0
        /\ Abs(Max(minHeight, Ceil(n.v)) - height) <= 1 * Scale

\* C4: every step that ingests such a payload leaves the committed height,
\* the pending value and the frame request as they were, requests no frame
\* and notifies nobody.
C4_ThresholdNoOp ==
    [][ Untouched \/ ~\E rawValue \in Payloads :
                          C4_Case(rawValue) /\ setHeightFromPayload(rawValue) ]_vars

\* a payload exactly 1 dp above the committed height was ignored
C4_Witness ==
    /\ op = Op("setHeightFromPayload", "threshold", 0)
    /\ \E rawValue \in Payloads :
          /\ C4_Case(rawValue)
          /\ Ceil(NumericValue(rawValue).v) = height + Scale

\* the claim's case of C5: the payload does not coerce to a finite,
\* strictly positive number
C5_Case(rawValue) ==
    LET n == NumericValue(rawValue)
    IN  ~(n.cls = "finite" /\ n.v > 0)

C6_MinHeightRaiseSchedules ==
    [][ /\ (op'.name = "rerender" /\ hasRAF /\ minHeight' > minHeight
               /\ minHeight' > height) =>
              /\ pendingHeightRef' = << Ceil(minHeight') >>
              /\ UNCHANGED << height, lastHeightRef >>
              /\ emitted' = <<>>
              /\ Cardinality(rafQueue') = 1
              /\ frameRef # null => (rafId' = rafId /\ rafQueue' = rafQueue)
              /\ frameRef = null => rafId' = rafId + 1
        /\ (op'.name = "frame" /\ sched.src = "minHeight") =>
              /\ lastHeightRef' = Ceil(sched.min)
              /\ mounted => height' = Ceil(sched.min)
              /\ emitted' = Notification(fired'[1], Ceil(sched.min)) ]_vars

\* a frame has just committed the ceiling of a fractional minHeight
C6_Witness ==
    /\ op.name = "frame" /\ op.outcome = "minHeight"
    /\ minHeight = Scale + 5
    /\ height = 2 * Scale
    /\ emitted = Notification("f", 2 * Scale)
    /\ emitted # <<>>

\* C7: once the hook is unmounted nothing is committed and nobody is notified.
C7_NothingAfterUnmount ==
    [][ ~mounted => (UNCHANGED << height, lastHeightRef >> /\ emitted' = <<>>) ]_vars

\* C8: a frame callback that runs while no pending value exists changes
\* neither the committed height nor the refs and notifies nobody.
C8_StrayFlushNoOp ==
    [][ (op'.name \in {"stray", "frame"} /\ pendingHeightRef = undefined) =>
              /\ UNCHANGED << height, lastHeightRef, pendingHeightRef, frameRef >>
              /\ emitted' = <<>> ]_vars

\* the callback that committed a height before has run once more
C8_Witness ==
    /\ op.name = "stray"
    /\ fired = << "f" >>
    /\ height > InitialHeight(minHeight)

\* the claim's case of C9 for a payload: no frame primitive, a mounted hook,
\* a valid payload whose candidate is more than 1 dp from the committed height
C9_Case(rawValue) ==
    LET n == NumericValue(rawValue)
    IN  /\ ~hasRAF /\ mounted
        /\ n.cls = "finite" /\ n.v > 0
        /\ Abs(Max(minHeight, Ceil(n.v)) - height) > 1 * Scale

\* C9: without requestAnimationFrame an accepted payload, or a minHeight
\* raised above the committed height, is committed within the call: the
\* committed height is the candidate, it is notified once, nothing stays
\* pending and no frame is requested.
C9_SynchronousFallback ==
    [][ /\ \A rawValue \in Payloads :
              (C9_Case(rawValue) /\ setHeightFromPayload(rawValue)) =>
                  LET cand == Max(minHeight, Ceil(NumericValue(rawValue).v))
                  IN  /\ height' = cand
                      /\ emitted' = Notification(onHeightChange, cand)
                      /\ pendingHeightRef' = undefined
                      /\ frameRef' = null
                      /\ UNCHANGED << rafQueue, rafId >>
        /\ (op'.name = "rerender" /\ ~hasRAF /\ minHeight' > height) =>
              /\ height' = Ceil(minHeight')
              /\ emitted' = Notification(onHeightChange', Ceil(minHeight'))
              /\ pendingHeightRef' = undefined
              /\ frameRef' = null
              /\ UNCHANGED << rafQueue, rafId >> ]_vars

\* a payload was committed and notified within the call
C9_Witness ==
    /\ ~hasRAF
    /\ Accepted
    /\ emitted = Notification("f", height)
    /\ emitted # <<>>
    /\ height > minHeight

\* C10: a new instance has committed height max(minHeight, 1), nothing
\* pending, no frame requested and has notified nobody.
C10_InitialState ==
    op.name = "init" =>
        /\ height = Max(minHeight, 1 * Scale)
        /\ pendingHeightRef = undefined
        /\ frameRef = null
        /\ rafQueue = {}
        /\ rafId = 0
        /\ emitted = <<>>

\* a new instance whose minHeight is below 1
C10_Witness == op.name = "init" /\ minHeight = 0 /\ height = Scale

\* C11: with a frame primitive, a step that ingests a payload or re-renders
\* with a new minHeight changes neither the committed height nor its ref and
\* notifies nobody, so only a frame step changes them; a frame step that
\* finds a pending value clears frameRef and the pending value, commits that
\* value (to the ref, and to the state of a mounted hook) and invokes the
\* notification of the frame's closure once with that value.
C11_OnlyCommitStepMutates ==
    [][ /\ (hasRAF /\ op'.name \in {"setHeightFromPayload", "rerender", "unmount"}) =>
              /\ UNCHANGED << height, lastHeightRef >>
              /\ emitted' = <<>>
        /\ (hasRAF /\ << height, lastHeightRef >>' # << height, lastHeightRef >>) =>
              op'.name = "frame"
        /\ (op'.name = "frame" /\ pendingHeightRef # undefined) =>
              /\ frameRef' = null
              /\ pendingHeightRef' = undefined
              /\ lastHeightRef' = pendingHeightRef[1]
              /\ mounted => height' = pendingHeightRef[1]
              /\ emitted' = Notification(fired'[1], pendingHeightRef[1])
              /\ Len(emitted') <= 1 ]_vars

\* a frame has just committed the one payload scheduled behind it and
\* notified its callback once
C11_Witness ==
    /\ op = Op("frame", "payload", 1)
    /\ mounted
    /\ frameRef = null /\ pendingHeightRef = undefined
    /\ height = lastHeightRef
    /\ emitted = << [cb |-> "f", h |-> height] >>

----------------------------------------------------------------------------
(* Properties of the Agent *)

\* every observer, listener, cleanup function and timer is held once, and at
\* most one fallback timer is armed
OneSet ==
    /\ \A o \in BagToSet(observers) : CopiesIn(o, observers) = 1
    /\ \A k \in BagToSet(listeners) : CopiesIn(k, listeners) = 1
    /\ \A c \in BagToSet(cleanup) : CopiesIn(c, cleanup) = 1
    /\ \A t \in BagToSet(timeouts) : CopiesIn(t, timeouts) = 1
    /\ Cardinality({ t \in BagToSet(timeouts) : t.kind = "fallback" }) <= 1

\* C12: idempotent bootstrap.  However often the script runs in the live
\* document, there is one session holding one set of observers, listeners and
\* timers; a run of the script that finds the session installs nothing (no
\* observer, listener, cleanup function, fonts.ready continuation or
\* stabilization timer is added) and forces a measurement through refresh.
C12_IdempotentBootstrap ==
    [][ /\ OneSet'
        /\ aop'.name = "reinject" =>
              /\ session = "live" /\ session' = "live"
              /\ observers' = observers
              /\ listeners' = listeners
              /\ cleanup' = cleanup
              /\ fontsReady' = fontsReady
              /\ trackedMedia' = trackedMedia
              /\ \A t \in BagToSet(timeouts') :
                    t.kind # "fallback" => CopiesIn(t, timeouts') <= CopiesIn(t, timeouts)
              /\ frames' (-) frames = EmptyBag
              /\ aop'.measures >= 1 ]_vars

\* a second injection into the bootstrapped session has re-measured changed
\* content and posted it; the session's listeners and timers are in place
C12_Witness ==
    /\ aop.name = "reinject"
    /\ bootstrapped /\ session = "live"
    /\ aop.measures >= 1
    /\ posted # << >>
    /\ BagIn(ListenerKey("window", "unload"), listeners)
    /\ \E t \in BagToSet(timeouts) : t.kind = "stabilization"

\* the height a step measured last (the geometry is read during the step)
Measured == measureHeight(layout)

\* C13: a height is posted only if it is positive and differs from the last
\* height that went out on the channel; and a positive height within the
\* plausible range that differs from the last height that went out is posted
\* by any step that measures it over a working channel, also when an earlier
\* post of it was swallowed.
C13_PostsUnlessLastSent ==
    [][ /\ \A i \in 1..Len(posted') :
              /\ posted'[i] > 0
              /\ posted'[i] # (IF i = 1 THEN lastSent ELSE posted'[i - 1])
        /\ ( /\ aop'.measures >= 1
             /\ channel' = "ok"
             /\ Measured' \in 1..(ANOMALY_LIMIT * Scale)
             /\ Measured' # lastSent )
           => lastSent' = Measured' ]_vars

\* C14: anomaly guard.  A height above ANOMALY_LIMIT is posted only by a step
\* whose measurement is at least the third consecutive one above the limit,
\* and a step that measures a height at or below the limit leaves the
\* consecutive count at zero.
C14_AnomalyGuard ==
    [][ /\ \A i \in 1..Len(posted') :
              posted'[i] > ANOMALY_LIMIT * Scale => streak' >= ANOMALY_CONFIRMATIONS
        /\ (aop'.measures >= 1 /\ Measured' <= ANOMALY_LIMIT * Scale)
              => state'.anomalyCount = 0 ]_vars

\* C15: an anomalous measurement is deferred, not discarded.  A step that
\* measures a height above ANOMALY_LIMIT goes on measuring until the
\* confirmation count is reached and then hands the height to the channel:
\* when the step ends the height is the session's last height, and it went
\* out in this step if the channel works and it was not the last height
\* already.
C15_AnomalyDeferredNotDiscarded ==
    [][ (aop'.measures >= 1 /\ Measured' > ANOMALY_LIMIT * Scale) =>
           /\ state'.anomalyCount >= ANOMALY_CONFIRMATIONS
           /\ state'.lastHeight = Measured'
           /\ (channel' = "ok" /\ state.lastHeight # Measured') =>
                 /\ posted' = << Measured' >>
                 /\ lastSent' = Measured' ]_vars

\* the fallback timer found the content above the limit, and the height
\* went out after the confirming measurements
C15_Witness ==
    /\ aop = AOp("fallback", 2)
    /\ Measured > ANOMALY_LIMIT * Scale
    /\ streak = ANOMALY_CONFIRMATIONS
    /\ posted = << Measured >>

\* C16: fallback back-off.  A firing of the fallback timer forces a
\* measurement and re-arms the timer with 1.5 times the delay of the timer
\* that fired (floored), at most MAX_FALLBACK_MS; the first timer is armed
\* with INITIAL_FALLBACK_MS.
C16_FallbackBackoff ==
    [][ /\ (state.fallbackTimer = null /\ state'.fallbackTimer # null) =>
              state'.fallbackTimer[1].delay = INITIAL_FALLBACK_MS
        /\ aop'.name = "fallback" =>
              /\ aop'.measures >= 1
              /\ state'.fallbackTimer # null
              /\ state'.fallbackTimer[1].delay =
                    Min(MAX_FALLBACK_MS, (state.fallbackTimer[1].delay * 3) \div 2) ]_vars

\* the fallback timers the browser holds
FallbackTimers == { t \in BagToSet(timeouts) : t.kind = "fallback" }

\* exactly one fallback timer is armed, and it is the session's
OneFallbackArmed ==
    /\ state.fallbackTimer # null
    /\ FallbackTimers = { state.fallbackTimer[1] }
    /\ CopiesIn(state.fallbackTimer[1], timeouts) = 1

\* C17: backstop.  From the end of bootstrap until teardown, between any two
\* callbacks exactly one fallback timer is armed; its firing forces a
\* measurement and leaves one armed again, so that measurements recur
\* whatever else fires or does not.
C17_FallbackAlwaysArmed ==
    [][ /\ (bootstrapped' /\ session' = "live") => OneFallbackArmed'
        /\ (aop'.name = "fallback" /\ bootstrapped /\ session = "live") =>
              /\ OneFallbackArmed
              /\ aop'.measures >= 1
              /\ session' = "live" ]_vars

\* the fallback timer fired in the bootstrapped session, with no frame and
\* no other timer left to drive a measurement, and one is armed again
C17_Witness ==
    /\ aop.name = "fallback" /\ aop.measures >= 1
    /\ bootstrapped /\ session = "live"
    /\ OneFallbackArmed
    /\ frames = EmptyBag
    /\ BagToSet(timeouts) = FallbackTimers

\* C18: teardown.  When cleanupAll has run (document unload, or destroy), no
\* observer of the session is connected, no listener of it is registered, no
\* timer and no frame request of it is outstanding, and the cleanup registry
\* is empty.
C18_TeardownCancelsEverything ==
    [][ aop'.name \in {"unload", "destroy"} =>
           /\ observers' = EmptyBag
           /\ listeners' = EmptyBag
           /\ timeouts' = EmptyBag
           /\ frames' = EmptyBag
           /\ cleanup' = EmptyBag
           /\ state'.frame = null /\ state'.timer = null /\ state'.fallbackTimer = null
       ]_vars

\* C19: after teardown the session is quiescent.  A callback of the torn-down
\* session that still fires posts no height and arms no timer and no frame
\* request.
C19_QuiescentAfterTeardown ==
    [][ session = "destroyed" =>
           /\ posted' = << >>
           /\ timeouts' (-) timeouts = EmptyBag
           /\ frames' (-) frames = EmptyBag ]_vars

\* a tracked element that has not settled: its content is still loading, or
\* it was found complete and its frame callback is still to run
Unsettled(el) ==
    /\ el \in trackedMedia
    /\ media[el] = "loading" \/ BagIn(IframeFrame(el), frames)

\* C20: media tracking.  In the live session the in-flight counter equals the
\* number of tracked elements that have not settled, and the settle handler
\* of an element runs once: never again after it has removed the element's
\* listeners.
C20_CounterMatchesUnsettled ==
    [][ /\ session' = "live" =>
              state'.pendingLoads = Cardinality({ el \in Elements : Unsettled(el)' })
        /\ \A el \in Elements :
              (aop'.name = "iframeFrame" /\ BagIn(IframeFrame(el), frames)) =>
                  \A t \in SettleEvents[el] : BagIn(ListenerKey(el, t), listeners) ]_vars

\* C21: a viewport-class event (visualViewport resize or scroll, window
\* orientationchange, resize or pageshow, a document ready-state transition)
\* is measured within its handler: the step of the event takes a measurement
\* and leaves no debounce microtask behind.
C21_ViewportEventsMeasureAtOnce ==
    [][ aop'.name \in {"viewport", "event"} =>
           /\ aop'.measures >= 1
           /\ ~state'.microtask ]_vars

\* a control message: the sentinel string itself, or the JSON encoding of
\* an object whose topic is the sentinel
IsControl(data) ==
    \/ data = PlainString(MESSAGE_KEY)
    \/ \E m \in MarkedObjects : data = JSONStringify(m)

\* the session, the browser and the document, without the history of the step
AgentCore ==
    << session, unloaded, domReady, bootstrapped, readinessVars, state, cleanup,
       trackedMedia,
       observers, listeners, timeouts, frames, fontsReady, media, layout,
       trailing, channel, capabilities, lastSent, streak >>

\* C22: inbound control messages.  A message event carrying the sentinel
\* string or a JSON-encoded object with the marker forces a measurement
\* within the handler; a message event carrying anything else takes no
\* measurement, posts nothing and leaves the session as it was.
C22_ControlMessages ==
    [][ aop'.name = "message" =>
           \A data \in MessageData :
               onMessage(data) =>
                   IF IsControl(data)
                   THEN aop'.measures >= 1
                   ELSE /\ aop'.measures = 0
                        /\ posted' = << >>
                        /\ UNCHANGED AgentCore ]_vars

\* a control message made the session measure changed content and post it
C22_Witness ==
    /\ aop.name = "message" /\ aop.measures >= 1
    /\ session = "live" /\ bootstrapped
    /\ posted = << Measured >>
    /\ \E data \in MessageData : IsControl(data) /\ Requested(data) /\ data.type = "string"

\* the observers of a window with the capabilities caps
SupportedObservers(caps) ==
    SetToBag({ o \in {"mutation", "resize"} :
                  \/ o = "mutation" /\ "MutationObserver" \in caps
                  \/ o = "resize" /\ "ResizeObserver" \in caps })

\* C23: capability absence is not fatal.  Whatever observers the window
\* lacks, bootstrap runs to its end: it connects the observers the window
\* has and no other, registers every listener, arms the stabilization and
\* fallback timers and measures; afterwards the events, the stabilization
\* timers and the fallback timer each take a measurement, and a fallback
\* timer stays armed.
C23_CapabilityAbsenceNotFatal ==
    [][ /\ (~bootstrapped /\ bootstrapped') =>
              /\ observers' = SupportedObservers(capabilities)
              /\ \A k \in BootstrapListeners : BagIn(k, listeners')
              /\ \E t \in BagToSet(timeouts') : t.kind = "stabilization"
              /\ aop'.measures >= 1
        /\ (bootstrapped' /\ session' = "live") => OneFallbackArmed'
        /\ aop'.name \in {"event", "stabilization", "fallback"} => aop'.measures >= 1
       ]_vars

\* in a window without MutationObserver and ResizeObserver the fallback
\* timer measured changed content and posted it
C23_Witness ==
    /\ capabilities = {}
    /\ bootstrapped /\ session = "live"
    /\ observers = EmptyBag
    /\ aop.name = "fallback" /\ aop.measures >= 1
    /\ posted = << Measured >>
    /\ OneFallbackArmed

\* C24: channel failure is swallowed.  A measurement pass taken while
\* window.ReactNativeWebView is absent or its postMessage throws sends
\* nothing and runs to its end: no frame is left pending, the fallback delay
\* is reset and one fallback timer is armed, the session is live, and the
\* observers, listeners and cleanup functions are those of bootstrap; and
\* every trigger goes on measuring.
C24_ChannelFailureSwallowed ==
    [][ /\ (aop'.measures >= 1 /\ channel' # "ok") =>
              /\ posted' = << >>
              /\ lastSent' = lastSent
              /\ session' = "live"
              /\ state'.frame = null
              /\ OneFallbackArmed'
              /\ state'.fallbackDelay =
                    IF aop'.name = "fallback"
                    THEN (INITIAL_FALLBACK_MS * 3) \div 2
                    ELSE INITIAL_FALLBACK_MS
              /\ aop'.name \notin {"inject", "domReady"} =>
                    /\ observers' = observers
                    /\ listeners' = listeners
                    /\ cleanup' = cleanup
              /\ bootstrapped' =>
                    /\ observers' = SupportedObservers(capabilities)
                    /\ \A k \in BootstrapListeners : BagIn(k, listeners')
        /\ aop'.name \in {"reinject", "fallback", "stabilization", "event"} =>
              aop'.measures >= 1 ]_vars

\* a window event measured a new height while postMessage throws: the height
\* did not go out, and the fallback timer is armed
C24_Witness ==
    /\ aop.name = "event" /\ aop.measures >= 1
    /\ channel = "throws"
    /\ Measured > 0
    /\ state.lastHeight = Measured
    /\ lastSent # Measured
    /\ posted = << >>
    /\ bootstrapped /\ OneFallbackArmed

\* the debounce timers the browser holds, with multiplicity
DebounceTimers ==
    [t \in { u \in BagToSet(timeouts) : u.kind = "debounce" } |-> CopiesIn(t, timeouts)]

\* C25: coalescing.  At any time at most one frame request for a measurement
\* pass and at most one debounce timer are outstanding, so the next frame
\* runs at most one measurement pass.
C25_AgentCoalescing ==
    /\ BagCardinality(frames) <= 1
    /\ BagCardinality(DebounceTimers) <= 1

\* C26: mutation debouncing.  The MutationObserver callback takes no
\* measurement itself, and the measurement its debounce leads to is taken
\* when the cooldown has run out: by the debounce timer, not by a frame
\* callback that runs while that timer is still armed.
C26_MutationDebounced ==
    [][ /\ aop'.name = "mutation" => aop'.measures = 0
        /\ (aop'.name = "frame" /\ state.timer # null) => aop'.measures = 0 ]_vars


----------------------------------------------------------------------------
(* Properties of the script composer and of the Container *)

\* the lines of a text: its runs of characters between line breaks
RECURSIVE Lines(_)
Lines(chars) ==
    LET breaks == { i \in 1..Len(chars) : chars[i] = LineBreak }
    IN  IF breaks = {} THEN << chars >>
        ELSE LET i == CHOOSE j \in breaks : \A k \in breaks : j <= k
             IN  << SubSeq(chars, 1, i - 1) >> \o Lines(SubSeq(chars, i + 1, Len(chars)))

\* the lines of the non-empty strings among some chunks, in the chunks' order
RECURSIVE ChunkLines(_)
ChunkLines(args) ==
    IF args = << >> THEN << >>
    ELSE (IF Head(args).type = "string" /\ Len(Head(args).chars) > 0
          THEN Lines(Head(args).chars) ELSE << >>) \o ChunkLines(Tail(args))

\* C27: a call of the composer returns undefined exactly when no chunk is
\* a non-empty string; otherwise it returns a string whose lines are the
\* lines of the non-empty chunks, in their order, and then the line "true;".
C27_ComposedScript ==
    composed # << >> =>
        LET result == composed[1]
        IN  /\ result = JsUndefined <=> ChunkLines(chunks) = << >>
            /\ result # JsUndefined =>
                  /\ result.type = "string"
                  /\ Lines(result.chars) = ChunkLines(chunks) \o << TrueStatement >>

\* a call like composeInjectedScript('a();', undefined, 'b;\nc;') returned
C27_Witness ==
    /\ composed # << >> /\ composed[1].type = "string"
    /\ Len(chunks) = 3
    /\ Truthy(chunks[1]) /\ ~Truthy(chunks[2]) /\ Truthy(chunks[3])
    /\ chunks[1] # chunks[3]


\* the lines the composer owes for some chunks
Owed(args) == ChunkLines(args) \o << TrueStatement >>

\* C28: the WebView of every render gets, as the script to run before the
\* content loads, a string that starts with the bridge, goes on with the
\* caller's pre-load script if that is a non-empty string, and ends with
\* the line "true;"; as the script to run after the load it gets the
\* caller's post-load script followed by the line "true;", and undefined
\* when the caller supplies no post-load script.
C28_InjectionContract ==
    rendered.type = "View" =>
        LET before == rendered.webView.injectedJavaScriptBeforeContentLoaded
            after == rendered.webView.injectedJavaScript
            bridge == AUTO_HEIGHT_BRIDGE.chars
        IN  /\ before.type = "string"
            /\ SubSeq(before.chars, 1, Len(bridge)) = bridge
            /\ Lines(before.chars) =
                  Owed(<< AUTO_HEIGHT_BRIDGE, props.injectedJavaScriptBeforeContentLoaded >>)
            /\ props.injectedJavaScript = JsUndefined => after = JsUndefined
            /\ after # JsUndefined =>
                  /\ after.type = "string"
                  /\ Lines(after.chars) = Owed(<< props.injectedJavaScript >>)
            /\ after = JsUndefined => ChunkLines(<< props.injectedJavaScript >>) = << >>

\* a later render, in which the caller supplies both scripts
C28_Witness ==
    /\ rendered.type = "View" /\ op.name = "rerender"
    /\ Truthy(props.injectedJavaScript)
    /\ Truthy(props.injectedJavaScriptBeforeContentLoaded)
    /\ rendered.webView.injectedJavaScript # JsUndefined


\* the call that hands a message event's data to the hook
Forward(event) == [hook |-> "setHeightFromPayload", rawValue |-> event.nativeEvent.data]

\* C29: a message event makes the Container call setHeightFromPayload with
\* the event's data first, and then the caller's onMessage, if there is
\* one, once with that event; without a caller handler the call of
\* setHeightFromPayload is all that happens, and it does happen.
C29_MessageForwarding ==
    [][ \A event \in MessageEvents :
            handleMessage(event) =>
                /\ op'.name = "setHeightFromPayload"
                /\ delivered' =
                      IF props.onMessage = JsUndefined
                      THEN << Forward(event) >>
                      ELSE << Forward(event),
                              [callback |-> props.onMessage, event |-> event] >> ]_vars

\* an event whose payload the hook accepted has reached the caller's handler
C29_Witness ==
    /\ op.name = "setHeightFromPayload" /\ op.outcome = "accepted"
    /\ Len(delivered) = 2
    /\ delivered[2].callback = JsFunction("g")


\* what the WebView gets for a prop the caller may override
Forwarded(value, default) == IF value = JsUndefined THEN default ELSE value

\* C30: the WebView of every render has the caller's scrollEnabled,
\* originWhitelist, showsVerticalScrollIndicator and
\* automaticallyAdjustContentInsets where the caller supplies them, and
\* otherwise false, ['*'], false and true; and the height that the
\* container's style list resolves to is the hook's committed height.
C30_ContainerDefaults ==
    rendered.type = "View" =>
        /\ rendered.webView.scrollEnabled =
              Forwarded(props.scrollEnabled, JsBoolean(FALSE))
        /\ rendered.webView.originWhitelist =
              Forwarded(props.originWhitelist, JsArray(<< "*" >>))
        /\ rendered.webView.showsVerticalScrollIndicator =
              Forwarded(props.showsVerticalScrollIndicator, JsBoolean(FALSE))
        /\ rendered.webView.automaticallyAdjustContentInsets =
              Forwarded(props.automaticallyAdjustContentInsets, JsBoolean(TRUE))
        /\ Flatten(rendered.style, "height") = JsNumber(height)


\* the caller's containerStyle sets a height of its own
CallerSetsHeight ==
    props.containerStyle.type = "object" /\ "height" \in DOMAIN props.containerStyle.fields

\* C30, amended: the four props are defaulted or forwarded as stated; the
\* container's style list starts with the hook's committed height, and that
\* is the height the list resolves to unless the caller's containerStyle
\* sets a height, which then takes its place.
C30_ContainerDefaults_Amended ==
    rendered.type = "View" =>
        /\ rendered.webView.scrollEnabled =
              Forwarded(props.scrollEnabled, JsBoolean(FALSE))
        /\ rendered.webView.originWhitelist =
              Forwarded(props.originWhitelist, JsArray(<< "*" >>))
        /\ rendered.webView.showsVerticalScrollIndicator =
              Forwarded(props.showsVerticalScrollIndicator, JsBoolean(FALSE))
        /\ rendered.webView.automaticallyAdjustContentInsets =
              Forwarded(props.automaticallyAdjustContentInsets, JsBoolean(TRUE))
        /\ rendered.style[1] = JsObject("height" :> JsNumber(height))
        /\ Flatten(rendered.style, "height") =
              IF CallerSetsHeight THEN props.containerStyle.fields["height"]
              ELSE JsNumber(height)

\* a frame has committed a payload's height under a container whose caller
\* styles it without a height
C30_Witness ==
    /\ op.name = "frame" /\ op.outcome = "payload"
    /\ rendered.type = "View"
    /\ props.containerStyle # JsUndefined /\ ~CallerSetsHeight
    /\ height > InitialHeight(minHeight)
    /\ Flatten(rendered.style, "height") = JsNumber(height)


\* C31: the debounce armed by the microtask of a mutation or geometry batch
\* is 48 ms when media is in flight at that moment (state.pendingLoads > 0)
\* and 160 ms otherwise, and it is the only debounce timer the browser
\* holds afterwards: one armed before has been cancelled.
C31_DebounceWindow ==
    [][ aop'.name = "microtask" =>
            LET armed == Timer("debounce", IF state.pendingLoads > 0 THEN 48 ELSE 160)
            IN  /\ state'.timer = << armed >>
                /\ { t \in BagToSet(timeouts') : t.kind = "debounce" } = { armed }
                /\ CopiesIn(armed, timeouts') = 1 ]_vars

\* a debounce was armed while media was in flight
C31_Witness ==
    /\ aop.name = "microtask"
    /\ state.pendingLoads > 0
    /\ state.timer = << Timer("debounce", ACTIVE_DEBOUNCE_MS) >>


----------------------------------------------------------------------------
(* Properties across the Reconciler, the Agent and the Container *)


\* C33: a render that raises minHeight above the committed height while
\* the candidate P of a payload is pending leaves max(P, ceil(minHeight))
\* pending, which is what the frame then commits.
C33_MinHeightKeepsPending ==
    [][ ( /\ op'.name = "rerender" /\ minHeight' > height
          /\ pendingHeightRef # undefined /\ sched.src = "payload" ) =>
            pendingHeightRef' = << Max(pendingHeightRef[1], Ceil(minHeight')) >> ]_vars

\* nothing is on its way: no message in the channel, no commit scheduled
Settled == inflight = << >> /\ rafQueue = {} /\ frameRef = null /\ pendingHeightRef = undefined

\* C32: when the Agent has posted, every message has been delivered and
\* every scheduled commit has fired, the committed height is within 1 of
\* the larger of minHeight and the height the Agent posted last.
C32_EndToEndConvergence ==
    (lastSent > 0 /\ Settled) =>
        Abs(height - Max(minHeight, lastSent)) <= 1 * Scale


\* the step ran commitHeight: a frame flushed a pending value, or a value
\* was flushed at once for want of requestAnimationFrame
CommitStep ==
    \/ op'.name = "frame" /\ pendingHeightRef # undefined
    \/ /\ op'.name = "setHeightFromPayload" /\ op'.outcome = "accepted" /\ ~Deferred
    \/ /\ op'.name = "rerender" /\ op'.outcome = "scheduled" /\ ~Deferred

\* the committed value comes from a payload
FromPayload ==
    \/ op'.name = "frame" /\ sched.src = "payload"
    \/ op'.name = "setHeightFromPayload"

\* C34: every commit replaces the committed height by another value, more
\* than 1 away from it when the value comes from a payload, and no
\* notification carries the height that was in effect before the commit.
C34_CommitChangesHeight ==
    [][ CommitStep =>
            /\ lastHeightRef' # lastHeightRef
            /\ mounted => height' # height
            /\ FromPayload => Abs(lastHeightRef' - lastHeightRef) > 1 * Scale
            /\ \A i \in 1..Len(emitted') : emitted'[i].h # lastHeightRef ]_vars

\* a frame has committed a payload's height, one of a burst, and notified it
C34_Witness ==
    /\ op.name = "frame" /\ op.outcome = "payload" /\ op.n = 2
    /\ emitted # << >> /\ emitted[1].h = height


\* C35: a commit notifies the onHeightChange of the latest render, once,
\* with the committed value: the callback in place when the commit runs,
\* also when it was replaced after the commit had been scheduled.
C35_NotifiesCurrentCallback ==
    [][ CommitStep => emitted' = Notification(onHeightChange', lastHeightRef') ]_vars


\* the text of a message is the decimal string of the positive integer n
DecimalOf(chars, n) ==
    /\ chars # << >>
    /\ AllDigits(chars)
    /\ Head(chars) # "0"
    /\ DigitsValue(chars) = n
    /\ n > 0

\* C36: no two consecutive outbound messages of a session carry the same
\* value, every outbound message is the decimal string of a positive
\* integer, and a height that differs from the one that went out last (for
\* instance one that returns after a different height went out) is posted
\* again by the step that measures it over a working channel.
C36_DistinctDecimalPosts ==
    [][ /\ \A i \in 1..Len(posted') :
              LET text     == Outbound(posted')[i].chars
                  previous == IF i = 1 THEN lastSent ELSE posted'[i - 1]
              IN  /\ DecimalOf(text, posted'[i] \div Scale)
                  /\ DigitsValue(text) * Scale # previous
        /\ ( /\ aop'.measures >= 1
             /\ channel' = "ok"
             /\ Measured' \in 1..(ANOMALY_LIMIT * Scale)
             /\ Ceil(Measured') # lastSent
             /\ lastSent > 0 )
           => posted' # << >> /\ posted'[Len(posted')] = Ceil(Measured') ]_vars


\* the passes a forced measurement nests at most: the one that prunes the
\* trailing nodes and the consecutive ones of the anomaly guard
MaxNesting == 1 + ANOMALY_CONFIRMATIONS

\* the callbacks that end with a forced measurement
ForcedSteps ==
    {"inject", "domReady", "reinject", "looseFrame", "fallback", "debounce",
     "stabilization", "event", "fontsReady", "message"}

\* C37: a forced measurement terminates.  From every reachable state of a
\* live session it makes at most MaxNesting measurement passes, re-entries
\* from the anomaly guard and from trailing-node pruning included, and a
\* callback that ends with one leaves no measurement frame and no debounce
\* timer pending.
C37_ForcedMeasureTerminates ==
    [][ /\ session = "live" =>
              LET w == scheduleMeasure(World, TRUE)
              IN  /\ w.passes \in 1..MaxNesting
                  /\ w.state.frame = null /\ w.state.timer = null
        /\ (aop'.name \in ForcedSteps /\ aop'.measures >= 1) =>
              /\ state'.frame = null /\ state'.timer = null
              /\ ~BagIn(MeasureFrame, frames')
              /\ \A t \in BagToSet(timeouts') : t.kind # "debounce" ]_vars

\* the debounce timer has fired and its forced measurement has re-entered
\* until a suspect height was confirmed and posted
C37_Witness ==
    /\ aop.name = "debounce" /\ aop.measures = 2
    /\ streak = ANOMALY_CONFIRMATIONS
    /\ state.anomalyCount = ANOMALY_CONFIRMATIONS
    /\ posted # << >>
    /\ state.frame = null /\ state.timer = null


\* w holds one fallback timer, armed with the initial delay, and
\* state.fallbackTimer is its handle
RearmedAtInitialDelay(w) ==
    LET armed == Timer("fallback", INITIAL_FALLBACK_MS)
    IN  /\ w.state.fallbackTimer = << armed >>
        /\ { t \in BagToSet(w.timeouts) : t.kind = "fallback" } = { armed }
        /\ CopiesIn(armed, w.timeouts) = 1

\* C38: the fallback delay lies between INITIAL_FALLBACK_MS and
\* MAX_FALLBACK_MS in every state, and a measurement pass, from any reachable
\* state and in every callback that makes one, sets it to INITIAL_FALLBACK_MS
\* and leaves one fallback timer armed (the callback of the fallback timer
\* then raises the delay by half for its own re-arming).
C38_FallbackDelayRange ==
    [][ /\ state.fallbackDelay \in INITIAL_FALLBACK_MS..MAX_FALLBACK_MS
        /\ state'.fallbackDelay \in INITIAL_FALLBACK_MS..MAX_FALLBACK_MS
        /\ LET w == runMeasure(World)
           IN  /\ w.state.fallbackDelay = INITIAL_FALLBACK_MS
               /\ RearmedAtInitialDelay(w)
        /\ aop'.measures >= 1 =>
              /\ RearmedAtInitialDelay([state |-> state', timeouts |-> timeouts'])
              /\ state'.fallbackDelay =
                    IF aop'.name = "fallback"
                    THEN Min(MAX_FALLBACK_MS, (INITIAL_FALLBACK_MS * 3) \div 2)
                    ELSE INITIAL_FALLBACK_MS ]_vars

\* a re-injection has measured in a session that has posted: the delay is the
\* initial one and one fallback timer is armed with it
C38_Witness ==
    /\ aop.name = "reinject" /\ aop.measures >= 1
    /\ state.fallbackDelay = INITIAL_FALLBACK_MS
    /\ RearmedAtInitialDelay([state |-> state, timeouts |-> timeouts])
    /\ lastSent > 0


\* C39: bootstrap runs at most once per session.  An injection into a
\* document that is not ready defers it: the handler of ensureDomReady is
\* registered for readystatechange and load, and nothing is installed.  It
\* runs once, when the document becomes interactive, and the handler is then
\* registered nowhere; the later readystatechange and load events and
\* every re-injection, before or after, run no bootstrap and install
\* nothing.
C39_BootstrapOnce ==
    [][ /\ bootstraps' <= 1
        /\ bootstrapped' <=> bootstraps' = 1
        /\ aop'.name = "inject" =>
              IF domReady
              THEN bootstraps' = 1 /\ readyListeners' = {}
              ELSE /\ bootstraps' = 0 /\ readyListeners' = ReadySources
                   /\ observers' = EmptyBag /\ listeners' = EmptyBag
                   /\ timeouts' = EmptyBag
        /\ (aop'.name = "domReady" /\ session # "none") =>
              /\ bootstraps = 0 /\ bootstraps' = 1
              /\ readyListeners' = {}
        /\ aop'.name \in {"reinject", "readyEvent"} =>
              /\ bootstraps' = bootstraps
              /\ observers' = observers /\ listeners' = listeners
              /\ cleanup' = cleanup ]_vars

\* the document has become interactive after the injection and the deferred
\* bootstrap has run in the live session
C39_Witness ==
    /\ aop.name = "domReady" /\ session = "live"
    /\ bootstrapped /\ bootstraps = 1
    /\ readyListeners = {}
    /\ observers # EmptyBag

=============================================================================
